---- MODULE Spec2Model ----
(***************************************************************************)
(* Hardware Projection & Correlation Engine of MartiniSimulationSCP-       *)
(* Reporting: the resource classifier, the improvement model, the          *)
(* correlation between measured and simulated throughput, and the three    *)
(* projection strategies, modelled from enhanced_hardware_projector.py,    *)
(* hardware_projector.py and pvc_correlation_study.py.                     *)
(*                                                                         *)
(* Numbers.  A Python float / numpy float64 is modelled as an exact        *)
(* rational <<n, d>> in lowest terms with d > 0, plus the IEEE specials    *)
(* <<1, 0>> = +inf, <<-1, 0>> = -inf and <<0, 0>> = nan.  Rounding and     *)
(* signed zeros are not modelled.  A Python division by zero raises        *)
(* ZeroDivisionError (modelled by the caller's guard); a division by a     *)
(* numpy zero yields inf or nan (NpDiv).                                   *)
(*                                                                         *)
(* Text.  A string is a sequence of tokens; the tokens are chosen so that  *)
(* every pattern the code searches for ('gt/', '/ex_u0', '/ex_u1',         *)
(* 'GT_TILE_', 'MHz') is a sequence of whole tokens, and substring search  *)
(* is sub-sequence search.                                                 *)
(***************************************************************************)
EXTENDS Integers, Sequences, FiniteSets, TLC

VARIABLES
  pc,            \* position in the pipeline of the specification at hand
  csv,           \* temp_data/1600mhz/simulation_results.csv: None (no file) or <<rows>>
  raw_data,      \* self.raw_data: frequency key -> the loaded (GT-filtered) table
  analysis,      \* resource_analysis: None or <<dict>> returned by analyze_resource_types
  config_file,   \* the values the JSON configuration file gives
  master_csv,    \* output/master_summary.csv: None (no file) or <<rows>>
  config,        \* self.config
  sim_data,      \* self.sim_data: None or <<rows>>
  correlation,   \* None, or <<what establish_tgs_correlation returned>>
  approaches,    \* the argument of calculate_projections: None, or the approaches asked for
  row_index,     \* calculate_projections: rows of sim_data already projected
  projections,   \* calculate_projections: the rows appended so far
  hw_result,     \* calculate_projections: hw_result of the current row, or None
  sim_result,    \* calculate_projections: sim_result of the current row, or None
  hybrid_result, \* calculate_projections: hybrid_result of the current row, or None
  error,         \* the exception that ended the run, or "none"
  comparison,    \* main(): None, or <<what generate_comparison_analysis returned>>
  study          \* PVCCorrelationStudy: sim_total_duration and correlation_results

classifyVars == <<csv, raw_data, analysis>>

projectVars ==
  <<config_file, master_csv, config, sim_data, correlation, approaches, row_index,
    projections, hw_result, sim_result, hybrid_result, error, comparison>>

vars == <<pc, classifyVars, projectVars, study>>

(***************************************************************************)
(* Bounds of the model                                                     *)
(***************************************************************************)
MaxRows == 2        \* rows of a per-resource table
MaxDuration == 1    \* numeric DURATION cells range over 0..MaxDuration

(***************************************************************************)
(* Arithmetic                                                              *)
(***************************************************************************)
Abs(n) == IF n < 0 THEN -n ELSE n

Sign(n) == IF n > 0 THEN 1 ELSE IF n < 0 THEN -1 ELSE 0

RECURSIVE GCD(_, _)
GCD(a, b) == IF b = 0 THEN a ELSE GCD(b, a % b)

\* the float n/d; d = 0 gives the special values
R(n, d) ==
  IF d = 0 THEN <<Sign(n), 0>>
  ELSE LET g == GCD(Abs(n), Abs(d))
           s == Sign(d)
       IN  <<(s * n) \div g, (s * d) \div g>>

NaN == <<0, 0>>

Inf == <<1, 0>>

Zero == <<0, 1>>

One == <<1, 1>>

IsNaN(a) == a = NaN

IsFinite(a) == a[2] # 0

IsZero(a) == a = Zero

RAdd(a, b) ==
  IF a[2] = 0 /\ b[2] = 0
  THEN (IF a = b THEN a ELSE NaN)
  ELSE IF a[2] = 0 \/ b[2] = 0
  THEN R(a[1] * b[2] + b[1] * a[2], 0)
  ELSE LET g == GCD(a[2], b[2])
       IN  R(a[1] * (b[2] \div g) + b[1] * (a[2] \div g), (a[2] \div g) * b[2])

RNeg(a) == <<-a[1], a[2]>>

RSub(a, b) == RAdd(a, RNeg(b))

RMul(a, b) ==
  IF a[2] = 0 \/ b[2] = 0 \/ a[1] = 0 \/ b[1] = 0
  THEN R(a[1] * b[1], a[2] * b[2])
  ELSE LET g == GCD(Abs(a[1]), b[2])
           h == GCD(Abs(b[1]), a[2])
       IN  R((a[1] \div g) * (b[1] \div h), (a[2] \div h) * (b[2] \div g))

RInv(a) == R(a[2], a[1])

\* a / b where b is a numpy float64: x/0 = +-inf, 0/0 = nan, x/inf = 0
NpDiv(a, b) == RMul(a, RInv(b))

\* a / b between Python numbers; the caller has excluded b = 0 (ZeroDivisionError)
PyDiv(a, b) == RMul(a, RInv(b))

\* n1/d1 < n2/d2 for positive denominators, by integer parts and remainders
RECURSIVE FracLt(_, _, _, _)
FracLt(n1, d1, n2, d2) ==
  IF n1 \div d1 # n2 \div d2 THEN n1 \div d1 < n2 \div d2
  ELSE IF n2 % d2 = 0 THEN FALSE
  ELSE IF n1 % d1 = 0 THEN TRUE
  ELSE FracLt(d2, n2 % d2, d1, n1 % d1)

RLt(a, b) ==
  IF IsNaN(a) \/ IsNaN(b) THEN FALSE
  ELSE IF a[2] = 0 /\ b[2] = 0 THEN a[1] < b[1]
  ELSE IF a[2] = 0 \/ b[2] = 0 THEN a[1] * b[2] < b[1] * a[2]
  ELSE FracLt(a[1], a[2], b[1], b[2])

RGt(a, b) == RLt(b, a)

RLe(a, b) == ~IsNaN(a) /\ ~IsNaN(b) /\ ~RLt(b, a)

RAbs(a) == <<Abs(a[1]), a[2]>>

(***************************************************************************)
(* Text                                                                    *)
(***************************************************************************)
\* pat in s
Contains(s, pat) ==
  \E i \in 1..(Len(s) - Len(pat) + 1) : SubSeq(s, i, i + Len(pat) - 1) = pat

\* s.startswith(pat)
StartsWith(s, pat) == Len(s) >= Len(pat) /\ SubSeq(s, 1, Len(pat)) = pat

GT_PREFIX == <<"gt", "/">>

EX_U0 == <<"/", "ex_u", "0">>

EX_U1 == <<"/", "ex_u", "1">>

GT_TILE == <<"GT_TILE_">>

\* Optional values: None is <<>>, a value v is <<v>>
None == <<>>

Some(v) == <<v>>

(***************************************************************************)
(* Inputs of the classifier: resource paths and DURATION cells             *)
(***************************************************************************)
ResourcePaths ==
  { <<"gt", "/", "GT_TILE_", "0", "/", "ex_u", "0">>,
    <<"gt", "/", "GT_TILE_", "0", "/", "ex_u", "1">>,
    <<"gt", "/", "GT_TILE_", "0", "/", "ex_u", "0", "/", "ex_u", "1">>,
    <<"gt", "/", "fabric">>,
    <<"gt", "/", "GT_TILE_", "0", "/", "l3">>,
    <<"cpu", "/", "GT_TILE_", "0", "/", "ex_u", "0">>,
    <<"m", "gt", "/", "GT_TILE_", "0", "/", "ex_u", "1">>,
    <<"soc", "/", "gt", "/", "fabric">>,
    <<"soc", "/", "gt", "/", "GT_TILE_", "0", "/", "ex_u", "0">> }

\* a DURATION cell of the CSV: a number, a text that is no number, or an empty cell
DurationCells ==
  [kind : {"num"}, val : 0..MaxDuration] \cup
  {[kind |-> "text", val |-> 0], [kind |-> "missing", val |-> 0]}

CsvRows == [RESOURCE : ResourcePaths, DURATION : DurationCells, TRANSITION : {"t"}]

(***************************************************************************)
(* load_simulation_data: the per-frequency table, GT resources only        *)
(***************************************************************************)
\* df[df['RESOURCE'].str.contains('gt/', na=False)]
FilterGT(df) == SelectSeq(df, LAMBDA row : Contains(row.RESOURCE, GT_PREFIX))

(***************************************************************************)
(* analyze_resource_types                                                  *)
(***************************************************************************)
\* mutant: a DURATION that is no number is read as 0 instead of nan
to_numeric_fill0(cell) == IF cell.kind = "num" THEN R(cell.val, 1) ELSE <<0, 1>>

\* pd.to_numeric(cell, errors='coerce'): the number, or nan
to_numeric(cell) == IF cell.kind = "num" THEN R(cell.val, 1) ELSE NaN

\* freq_data['DURATION'] = pd.to_numeric(...); freq_data.dropna(subset=['DURATION'])
CoerceAndDrop(df) ==
  SelectSeq([i \in 1..Len(df) |-> [df[i] EXCEPT !.DURATION = to_numeric(df[i].DURATION)]],
            LAMBDA row : ~IsNaN(row.DURATION))

Task(row) ==
  [resource |-> row.RESOURCE, duration |-> row.DURATION, transition |-> row.TRANSITION]

EmptyAccumulator ==
  [compute_tasks |-> <<>>, memory_comm_tasks |-> <<>>, other_tasks |-> <<>>,
   total_compute_duration |-> Zero, total_memory_comm_duration |-> Zero,
   total_other_duration |-> Zero]

\* mutant: the second test is an `if`, not an `elif`: a row matching both is counted twice
ClassifyRow_if(acc, row) ==
  LET a1 == IF Contains(row.RESOURCE, EX_U0) /\ Contains(row.RESOURCE, GT_TILE)
            THEN [acc EXCEPT !.compute_tasks = Append(@, Task(row)),
                             !.total_compute_duration = RAdd(@, row.DURATION)]
            ELSE acc
  IN  IF Contains(row.RESOURCE, EX_U1) /\ Contains(row.RESOURCE, GT_TILE)
      THEN [a1 EXCEPT !.memory_comm_tasks = Append(@, Task(row)),
                      !.total_memory_comm_duration = RAdd(@, row.DURATION)]
      ELSE IF StartsWith(row.RESOURCE, GT_PREFIX)
                /\ ~(Contains(row.RESOURCE, EX_U0) /\ Contains(row.RESOURCE, GT_TILE))
      THEN [a1 EXCEPT !.other_tasks = Append(@, Task(row)),
                      !.total_other_duration = RAdd(@, row.DURATION)]
      ELSE a1

\* mutant: the two tile tests are in the other order, /ex_u1 wins over /ex_u0
ClassifyRow_swapped(acc, row) ==
  IF Contains(row.RESOURCE, EX_U1) /\ Contains(row.RESOURCE, GT_TILE)
  THEN [acc EXCEPT !.memory_comm_tasks = Append(@, Task(row)),
                   !.total_memory_comm_duration = RAdd(@, row.DURATION)]
  ELSE IF Contains(row.RESOURCE, EX_U0) /\ Contains(row.RESOURCE, GT_TILE)
  THEN [acc EXCEPT !.compute_tasks = Append(@, Task(row)),
                   !.total_compute_duration = RAdd(@, row.DURATION)]
  ELSE IF StartsWith(row.RESOURCE, GT_PREFIX)
  THEN [acc EXCEPT !.other_tasks = Append(@, Task(row)),
                   !.total_other_duration = RAdd(@, row.DURATION)]
  ELSE acc

\* one iteration of the loop over the rows: the if / elif / elif chain
ClassifyRow(acc, row) ==
  IF Contains(row.RESOURCE, EX_U0) /\ Contains(row.RESOURCE, GT_TILE)
  THEN [acc EXCEPT !.compute_tasks = Append(@, Task(row)),
                   !.total_compute_duration = RAdd(@, row.DURATION)]
  ELSE IF Contains(row.RESOURCE, EX_U1) /\ Contains(row.RESOURCE, GT_TILE)
  THEN [acc EXCEPT !.memory_comm_tasks = Append(@, Task(row)),
                   !.total_memory_comm_duration = RAdd(@, row.DURATION)]
  ELSE IF StartsWith(row.RESOURCE, GT_PREFIX)
  THEN [acc EXCEPT !.other_tasks = Append(@, Task(row)),
                   !.total_other_duration = RAdd(@, row.DURATION)]
  ELSE acc

RECURSIVE ClassifyLoop(_, _, _)
ClassifyLoop(rows, i, acc) ==
  IF i > Len(rows) THEN acc ELSE ClassifyLoop(rows, i + 1, ClassifyRow(acc, rows[i]))

\* (part / total) * 100 if total > 0 else 0
Percentage(part, total) ==
  IF RGt(total, Zero) THEN RMul(PyDiv(part, total), R(100, 1)) ELSE Zero

Summary(acc) ==
  LET total_all_duration ==
        RAdd(RAdd(acc.total_compute_duration, acc.total_memory_comm_duration),
             acc.total_other_duration)
  IN  [compute_duration |-> acc.total_compute_duration,
       memory_comm_duration |-> acc.total_memory_comm_duration,
       other_duration |-> acc.total_other_duration,
       total_duration |-> total_all_duration,
       compute_percentage |-> Percentage(acc.total_compute_duration, total_all_duration),
       memory_comm_percentage |-> Percentage(acc.total_memory_comm_duration, total_all_duration),
       compute_tasks_count |-> Len(acc.compute_tasks),
       memory_comm_tasks_count |-> Len(acc.memory_comm_tasks),
       other_tasks_count |-> Len(acc.other_tasks)]

\* freq_data is None (<<>>) or <<table>>; the result is None or <<analysis>>
analyze_resource_types(freq_data) ==
  IF freq_data = None \/ Len(freq_data[1]) = 0 THEN None
  ELSE LET acc == ClassifyLoop(CoerceAndDrop(freq_data[1]), 1, EmptyAccumulator)
       IN  Some([compute_tasks |-> acc.compute_tasks,
                 memory_comm_tasks |-> acc.memory_comm_tasks,
                 other_tasks |-> acc.other_tasks,
                 summary |-> Summary(acc)])

(***************************************************************************)
(* The classification pipeline: a per-resource CSV is written, loaded      *)
(* (GT filter) and classified.                                             *)
(***************************************************************************)
FREQ_KEY == <<"1", "6", "0", "0">>

\* the loop over the frequency keys: a key whose file is missing gets no entry
\* (FileNotFoundError); only the 1600 MHz file is modelled
LoadRaw(file) == IF file = None THEN <<>> ELSE FREQ_KEY :> FilterGT(file[1])

\* self.raw_data.get(key)
RawGet(raw, key) == IF key \in DOMAIN raw THEN Some(raw[key]) ELSE None

\* the variables a specification does not use keep these values
IdleProject ==
  /\ config_file = None /\ master_csv = None /\ config = None /\ sim_data = None
  /\ correlation = None /\ approaches = <<>> /\ row_index = 0 /\ projections = <<>>
  /\ hw_result = None /\ sim_result = None /\ hybrid_result = None /\ error = "none"
  /\ comparison = None

IdleStudy == study = None

InitClassify ==
  /\ pc = "csv"
  /\ csv = Some(<<>>)
  /\ raw_data = <<>>
  /\ analysis = None
  /\ IdleProject
  /\ IdleStudy

\* the simulator appends one record to simulation_results.csv
WriteCsvRow ==
  /\ pc = "csv"
  /\ Len(csv[1]) < MaxRows
  /\ \E row \in CsvRows : csv' = Some(Append(csv[1], row))
  /\ UNCHANGED <<pc, raw_data, analysis, projectVars, study>>

\* load_simulation_data, for one frequency key
LoadRawData ==
  /\ pc = "csv"
  /\ raw_data' = LoadRaw(csv)
  /\ pc' = "loaded"
  /\ UNCHANGED <<csv, analysis, projectVars, study>>

\* analyze_resource_types(self.raw_data.get(key))
AnalyzeRawData ==
  /\ pc = "loaded"
  /\ analysis' = analyze_resource_types(RawGet(raw_data, FREQ_KEY))
  /\ pc' = "classified"
  /\ UNCHANGED <<csv, raw_data, projectVars, study>>

NextClassify == WriteCsvRow \/ LoadRawData \/ AnalyzeRawData

SpecClassify == InitClassify /\ [][NextClassify]_vars

(***************************************************************************)
(* Properties of the classifier                                            *)
(***************************************************************************)
\* number of positions of seq holding x
Occ(seq, x) == Cardinality({i \in DOMAIN seq : seq[i] = x})

RECURSIVE SumDurations(_)
SumDurations(tasks) ==
  IF tasks = <<>> THEN Zero ELSE RAdd(tasks[1].duration, SumDurations(Tail(tasks)))

\* the table handed to the classifier, and what it returned
Classified == pc = "classified" /\ analysis # None

GivenTable == raw_data[FREQ_KEY]

NumericCell(row) == row.DURATION.kind = "num"

\* the task a numeric row of the table becomes once it is counted
TaskOf(row) == Task([row EXCEPT !.DURATION = R(row.DURATION.val, 1)])

\* a gt/* resource, as everywhere in the repository
InGTDomain(resource) == StartsWith(resource, GT_PREFIX)

HasTile(resource) == Contains(resource, GT_TILE)

InBucket(tasks, row) == Occ(tasks, TaskOf(row)) > 0

\* C1: the three bucket totals add up to total_duration, which is the sum of the
\* durations of the records put in the three task lists, and every gt/* record with
\* a numeric duration is in exactly one task list, as often as it is in the table.
C1_ClassificationComplete ==
  Classified =>
    LET a == analysis[1]
        s == a.summary
    IN  /\ RAdd(RAdd(s.compute_duration, s.memory_comm_duration), s.other_duration)
             = s.total_duration
        /\ s.total_duration
             = SumDurations(a.compute_tasks \o a.memory_comm_tasks \o a.other_tasks)
        /\ s.compute_duration = SumDurations(a.compute_tasks)
        /\ s.memory_comm_duration = SumDurations(a.memory_comm_tasks)
        /\ s.other_duration = SumDurations(a.other_tasks)
        /\ \A i \in DOMAIN GivenTable :
             LET row == GivenTable[i] IN
             (NumericCell(row) /\ InGTDomain(row.RESOURCE)) =>
               /\ Occ(a.compute_tasks, TaskOf(row)) + Occ(a.memory_comm_tasks, TaskOf(row))
                    + Occ(a.other_tasks, TaskOf(row))
                  = Cardinality({j \in DOMAIN GivenTable :
                                   NumericCell(GivenTable[j]) /\ TaskOf(GivenTable[j]) = TaskOf(row)})
               /\ Cardinality({b \in {"c", "m", "o"} :
                                 InBucket(CASE b = "c" -> a.compute_tasks
                                            [] b = "m" -> a.memory_comm_tasks
                                            [] OTHER -> a.other_tasks, row)}) = 1

\* a classification that counted a compute record and another gt/* record
C1_Witness ==
  /\ Classified
  /\ analysis[1].summary.compute_tasks_count > 0
  /\ analysis[1].summary.other_tasks_count > 0
  /\ RGt(analysis[1].summary.total_duration, Zero)

\* C2 (as claimed): no record outside the gt/* domain is in a task list, so none
\* adds to a bucket total, to total_duration or to a task count.
C2_OutsideDomainExcluded ==
  Classified =>
    LET a == analysis[1]
        counted == a.compute_tasks \o a.memory_comm_tasks \o a.other_tasks
    IN  \A i \in DOMAIN counted : InGTDomain(counted[i].resource)

\* C3 (as claimed): a numeric record is in memory_comm iff its path has a tile
\* identifier and /ex_u1, and in compute iff it has a tile identifier and /ex_u0.
C3_BucketIffPattern ==
  Classified =>
    \A i \in DOMAIN GivenTable :
      LET row == GivenTable[i] IN
      NumericCell(row) =>
        /\ InBucket(analysis[1].memory_comm_tasks, row)
             <=> (HasTile(row.RESOURCE) /\ Contains(row.RESOURCE, EX_U1))
        /\ InBucket(analysis[1].compute_tasks, row)
             <=> (HasTile(row.RESOURCE) /\ Contains(row.RESOURCE, EX_U0))

\* C3 (amended): compute iff tile identifier and /ex_u0; memory_comm iff tile
\* identifier and /ex_u1 and no /ex_u0 (the compute test is made first).
C3_BucketIffPatternWithPrecedence ==
  Classified =>
    \A i \in DOMAIN GivenTable :
      LET row == GivenTable[i] IN
      NumericCell(row) =>
        /\ InBucket(analysis[1].memory_comm_tasks, row)
             <=> (HasTile(row.RESOURCE) /\ Contains(row.RESOURCE, EX_U1)
                    /\ ~Contains(row.RESOURCE, EX_U0))
        /\ InBucket(analysis[1].compute_tasks, row)
             <=> (HasTile(row.RESOURCE) /\ Contains(row.RESOURCE, EX_U0))

\* a classified numeric record whose path has both execution-unit suffixes
C3_Witness ==
  /\ Classified
  /\ \E i \in DOMAIN GivenTable :
       /\ NumericCell(GivenTable[i])
       /\ HasTile(GivenTable[i].RESOURCE)
       /\ Contains(GivenTable[i].RESOURCE, EX_U0)
       /\ Contains(GivenTable[i].RESOURCE, EX_U1)
       /\ InBucket(analysis[1].compute_tasks, GivenTable[i])

\* the table with the records of missing or non-numeric duration deleted
DeleteNonNumeric(df) == SelectSeq(df, NumericCell)

ZeroSummary ==
  [compute_duration |-> Zero, memory_comm_duration |-> Zero, other_duration |-> Zero,
   total_duration |-> Zero, compute_percentage |-> Zero, memory_comm_percentage |-> Zero,
   compute_tasks_count |-> 0, memory_comm_tasks_count |-> 0, other_tasks_count |-> 0]

\* C4 (as claimed): the result is the result for the table with the non-numeric
\* records deleted.
C4_SameAsDeleted ==
  pc = "classified" => analysis = analyze_resource_types(Some(DeleteNonNumeric(GivenTable)))

\* C4 (amended): a non-empty table always yields a result; it is the result for the
\* table with the non-numeric records deleted when a numeric record remains, and
\* the all-zero classification when none remains (the emptied table yields None).
C4_DroppedBeforeAggregation ==
  pc = "classified" =>
    /\ GivenTable # <<>> => analysis # None
    /\ DeleteNonNumeric(GivenTable) # <<>> =>
         analysis = analyze_resource_types(Some(DeleteNonNumeric(GivenTable)))
    /\ (GivenTable # <<>> /\ DeleteNonNumeric(GivenTable) = <<>>) =>
         /\ analysis[1].summary = ZeroSummary
         /\ analyze_resource_types(Some(DeleteNonNumeric(GivenTable))) = None

\* a classified table holding a gt/* record of numeric and one of non-numeric duration
C4_Witness ==
  /\ Classified
  /\ \E i, j \in DOMAIN GivenTable :
       /\ ~NumericCell(GivenTable[i]) /\ InGTDomain(GivenTable[i].RESOURCE)
       /\ NumericCell(GivenTable[j]) /\ InGTDomain(GivenTable[j].RESOURCE)
  /\ analysis[1].summary.compute_tasks_count + analysis[1].summary.memory_comm_tasks_count
       + analysis[1].summary.other_tasks_count = 1

(***************************************************************************)
(* Powers and roots.  x ** w and np.sqrt(x) are irrational in general; the *)
(* factors of the model are tenth powers (and squares) of the bases below, *)
(* and the weights are tenths, so that every power the code takes is an    *)
(* exact rational.                                                         *)
(***************************************************************************)
RECURSIVE IntPow(_, _)
IntPow(b, k) == IF k = 0 THEN One ELSE RMul(b, IntPow(b, k - 1))

Root10Bases == {Zero, R(1, 2), One, R(2, 1)}

SqrtBases == {Zero, One, R(1024, 1)}

\* np.sqrt(x): nan for a negative x
Sqrt(x) ==
  IF IsNaN(x) \/ RLt(x, Zero) THEN NaN
  ELSE CHOOSE r \in SqrtBases : RMul(r, r) = x

\* x ** w for x >= 0 or nan and a weight w that is a number of tenths
\* (0.0 ** 0 and nan ** 0 are 1)
Pow(x, w) ==
  IF IsNaN(x) THEN (IF IsZero(w) THEN One ELSE NaN)
  ELSE LET b == CHOOSE r \in Root10Bases : IntPow(r, 10) = x
       IN  IntPow(b, (w[1] * 10) \div w[2])

(***************************************************************************)
(* Frequency labels: '1600MHz' is <<"1", "6", "0", "0", "MHz">>            *)
(***************************************************************************)
DigitTokens == <<"0", "1", "2", "3", "4", "5", "6", "7", "8", "9">>

IsDigit(t) == \E i \in DOMAIN DigitTokens : DigitTokens[i] = t

DigitValue(t) == (CHOOSE i \in DOMAIN DigitTokens : DigitTokens[i] = t) - 1

\* freq_str.replace('MHz', '')
ReplaceMHz(s) == SelectSeq(s, LAMBDA t : t # "MHz")

RECURSIVE DigitsValue(_)
DigitsValue(s) ==
  IF s = <<>> THEN 0 ELSE DigitsValue(SubSeq(s, 1, Len(s) - 1)) * 10 + DigitValue(s[Len(s)])

\* int(s): None stands for ValueError
ParseInt(s) ==
  IF s # <<>> /\ \A i \in DOMAIN s : IsDigit(s[i]) THEN Some(DigitsValue(s)) ELSE None

RECURSIVE FormatInt(_)
FormatInt(n) ==
  IF n < 10 THEN <<DigitTokens[n + 1]>>
  ELSE FormatInt(n \div 10) \o <<DigitTokens[(n % 10) + 1]>>

\* f'{baseline_freq}MHz'
FrequencyLabel(n) == FormatInt(n) \o <<"MHz">>

(***************************************************************************)
(* Results of a call: [err |-> "none", ...fields] or [err |-> exception]   *)
(***************************************************************************)
Raise(e) == [err |-> e]

(***************************************************************************)
(* _calculate_hardware_improvement_factor                                  *)
(***************************************************************************)
\* mutant: the fabrication time ratio is subtracted from 1 instead of inverted
fabrication_speedup_1minus(fab) == RSub(One, fab)

\* 1 / improvements['fabrication_process']['value']
fabrication_speedup(fab) == PyDiv(One, fab)

_calculate_hardware_improvement_factor(cfg) ==
  IF IsZero(cfg.xecore_compute) \/ IsZero(cfg.fabrication_process)
  THEN Raise("ZeroDivisionError")
  ELSE LET compute_improvement == PyDiv(One, cfg.xecore_compute)
           memory_improvement == cfg.hbm_bandwidth
           fabrication_improvement == fabrication_speedup(cfg.fabrication_process)
           comm_improvement ==
             Sqrt(RMul(cfg.bandwidth_improvement, cfg.latency_improvement))
       IN  [err |-> "none",
            value |->
              RMul(RMul(RMul(Pow(compute_improvement, cfg.w_compute),
                             Pow(memory_improvement, cfg.w_memory)),
                        Pow(comm_improvement, cfg.w_communication)),
                   fabrication_improvement)]

(***************************************************************************)
(* apply_hardware_improvements                                             *)
(***************************************************************************)
\* a ratio without its guard
ImprovementRatio_unguarded(original, improved) == NpDiv(original, improved)

\* original / improved if improved > 0 else 1
ImprovementRatio(original, improved) ==
  IF RGt(improved, Zero) THEN NpDiv(original, improved) ELSE One

\* the compute ratio applied to the other bucket as well
apply_hardware_improvements_other(cfg, compute_duration, memory_duration, comm_duration, other_duration) ==
  IF IsZero(cfg.hbm_bandwidth) THEN Raise("ZeroDivisionError")
  ELSE LET fab_factor == cfg.fabrication_process
           comm_combined_factor ==
             Sqrt(RMul(cfg.bandwidth_improvement, cfg.latency_improvement))
           improved_compute == RMul(RMul(compute_duration, cfg.xecore_compute), fab_factor)
           improved_memory == RMul(PyDiv(memory_duration, cfg.hbm_bandwidth), fab_factor)
           improved_comm == RMul(NpDiv(comm_duration, comm_combined_factor), fab_factor)
           improved_other == RMul(RMul(other_duration, cfg.xecore_compute), fab_factor)
       IN  [err |-> "none",
            improved_compute_duration |-> improved_compute,
            improved_memory_duration |-> improved_memory,
            improved_comm_duration |-> improved_comm,
            improved_other_duration |-> improved_other,
            compute_improvement_ratio |-> ImprovementRatio(compute_duration, improved_compute),
            memory_improvement_ratio |-> ImprovementRatio(memory_duration, improved_memory),
            comm_improvement_ratio |-> ImprovementRatio(comm_duration, improved_comm),
            other_improvement_ratio |-> ImprovementRatio(other_duration, improved_other),
            total_improved_duration |->
              RAdd(RAdd(RAdd(improved_compute, improved_memory), improved_comm),
                   improved_other)]

apply_hardware_improvements(cfg, compute_duration, memory_duration, comm_duration, other_duration) ==
  IF IsZero(cfg.hbm_bandwidth) THEN Raise("ZeroDivisionError")
  ELSE LET fab_factor == cfg.fabrication_process
           comm_combined_factor ==
             Sqrt(RMul(cfg.bandwidth_improvement, cfg.latency_improvement))
           improved_compute == RMul(RMul(compute_duration, cfg.xecore_compute), fab_factor)
           improved_memory == RMul(PyDiv(memory_duration, cfg.hbm_bandwidth), fab_factor)
           improved_comm == RMul(NpDiv(comm_duration, comm_combined_factor), fab_factor)
           improved_other == RMul(other_duration, fab_factor)
       IN  [err |-> "none",
            improved_compute_duration |-> improved_compute,
            improved_memory_duration |-> improved_memory,
            improved_comm_duration |-> improved_comm,
            improved_other_duration |-> improved_other,
            compute_improvement_ratio |-> ImprovementRatio(compute_duration, improved_compute),
            memory_improvement_ratio |-> ImprovementRatio(memory_duration, improved_memory),
            comm_improvement_ratio |-> ImprovementRatio(comm_duration, improved_comm),
            other_improvement_ratio |-> ImprovementRatio(other_duration, improved_other),
            total_improved_duration |->
              RAdd(RAdd(RAdd(improved_compute, improved_memory), improved_comm),
                   improved_other)]

(***************************************************************************)
(* The three strategies                                                    *)
(***************************************************************************)
Seconds(ms) == PyDiv(ms, R(1000, 1))

TotalTokens(cfg) == R(cfg.tokens_input + cfg.tokens_output, 1)

\* mutant: the factor is recalibrated for the frequency at hand, so that its
\* simulated time is the measured time of the baseline
SimTimeSeconds_recalibrated(cfg, simulation_duration) ==
  RAdd(Seconds(cfg.ttft_ms), RMul(Seconds(cfg.tpot_ms), R(cfg.tokens_output, 1)))

\* sim_time_seconds = simulation_duration * correlation_factor, the factor being
\* read from the configuration
SimTimeSeconds(cfg, simulation_duration) ==
  RMul(simulation_duration, cfg.correlation_factor)

\* mutant: the scale is the inverse ratio
FrequencyScale_inverse(frequency, baseline_freq) == R(baseline_freq, frequency)

\* freq_scale = frequency / baseline_freq, for baseline_freq # 0
FrequencyScale(frequency, baseline_freq) == R(frequency, baseline_freq)

\* a throughput that grows with the simulated time
TgsFromSimTime_product(cfg, sim_time_seconds) ==
  IF RGt(sim_time_seconds, Zero) THEN RMul(TotalTokens(cfg), sim_time_seconds) ELSE Zero

\* total_tokens / sim_time_seconds if sim_time_seconds > 0 else 0
TgsFromSimTime(cfg, sim_time_seconds) ==
  IF RGt(sim_time_seconds, Zero) THEN PyDiv(TotalTokens(cfg), sim_time_seconds) ELSE Zero

calculate_hardware_calibrated_tgs(cfg, simulation_duration, frequency) ==
  IF cfg.baseline_frequency = 0 \/ frequency = 0 THEN Raise("ZeroDivisionError")
  ELSE
    LET freq_scale == FrequencyScale(frequency, cfg.baseline_frequency)
        scaled_ttft == PyDiv(Seconds(cfg.ttft_ms), freq_scale)
        scaled_tpot == PyDiv(Seconds(cfg.tpot_ms), freq_scale)
        total_time == RAdd(scaled_ttft, RMul(scaled_tpot, R(cfg.tokens_output, 1)))
        factor == _calculate_hardware_improvement_factor(cfg)
    IN  IF IsZero(total_time) THEN Raise("ZeroDivisionError")
        ELSE IF factor.err # "none" THEN factor
        ELSE
          LET baseline_tgs == PyDiv(TotalTokens(cfg), total_time)
              sim_time_seconds == SimTimeSeconds(cfg, simulation_duration)
              simulation_derived_tgs == TgsFromSimTime(cfg, sim_time_seconds)
              improved_tgs == RMul(baseline_tgs, factor.value)
          IN  [err |-> "none",
               baseline_tgs |-> baseline_tgs,
               improved_tgs |-> improved_tgs,
               improvement_factor |->
                 IF RGt(baseline_tgs, Zero) THEN NpDiv(improved_tgs, baseline_tgs) ELSE One,
               simulation_time_seconds |-> sim_time_seconds,
               simulation_derived_tgs |-> simulation_derived_tgs,
               tgs_correlation_ratio |->
                 IF RGt(simulation_derived_tgs, Zero)
                 THEN PyDiv(baseline_tgs, simulation_derived_tgs) ELSE One,
               scaled_ttft |-> scaled_ttft,
               scaled_tpot |-> scaled_tpot]

calculate_pure_simulation_tgs(cfg, simulation_duration, frequency) ==
  IF IsZero(cfg.xecore_compute) \/ IsZero(cfg.fabrication_process)
  THEN Raise("ZeroDivisionError")
  ELSE
    LET sim_time_seconds == SimTimeSeconds(cfg, simulation_duration)
        current_tgs == TgsFromSimTime(cfg, sim_time_seconds)
        compute_weight == R(4, 10)
        memory_weight == R(3, 10)
        comm_weight == R(3, 10)
        compute_factor == PyDiv(One, cfg.xecore_compute)
        memory_factor == cfg.hbm_bandwidth
        fab_factor == PyDiv(One, cfg.fabrication_process)
        combined_improvement ==
          RMul(RMul(Pow(compute_factor, compute_weight), Pow(memory_factor, memory_weight)),
               fab_factor)
    IN  [err |-> "none",
         simulation_time_seconds |-> sim_time_seconds,
         current_tgs |-> current_tgs,
         improved_tgs |-> RMul(current_tgs, combined_improvement),
         improvement_factor |-> combined_improvement,
         compute_weight |-> compute_weight,
         memory_weight |-> memory_weight,
         comm_weight |-> comm_weight]

\* a hybrid strategy that divides the improved total by the original one
HybridDetailed_inverse(hw, compute_dur, memory_dur, comm_dur, other_dur, improvements) ==
  IF improvements.err # "none" THEN improvements
  ELSE
    LET total_original == RAdd(RAdd(RAdd(compute_dur, memory_dur), comm_dur), other_dur)
        total_improved == improvements.total_improved_duration
        detailed_improvement ==
          IF RGt(total_improved, Zero) THEN NpDiv(total_improved, total_original) ELSE One
    IN  [hybrid_tgs |-> RMul(hw.baseline_tgs, detailed_improvement),
         detailed_improvement |-> detailed_improvement,
         resource_breakdown |-> improvements,
         memory_dur |-> memory_dur,
         comm_dur |-> comm_dur,
         total_original |-> total_original] @@ hw

\* calculate_hybrid_correlation_tgs, from `improvements = ...` to the first return;
\* the fields memory_dur, comm_dur and total_original are the locals of that name
HybridDetailed(hw, compute_dur, memory_dur, comm_dur, other_dur, improvements) ==
  IF improvements.err # "none" THEN improvements
  ELSE
    LET total_original == RAdd(RAdd(RAdd(compute_dur, memory_dur), comm_dur), other_dur)
        total_improved == improvements.total_improved_duration
        detailed_improvement ==
          IF RGt(total_improved, Zero) THEN NpDiv(total_original, total_improved) ELSE One
    IN  [hybrid_tgs |-> RMul(hw.baseline_tgs, detailed_improvement),
         detailed_improvement |-> detailed_improvement,
         resource_breakdown |-> improvements,
         memory_dur |-> memory_dur,
         comm_dur |-> comm_dur,
         total_original |-> total_original] @@ hw

\* calculate_hybrid_correlation_tgs, the branch taken when there is a classification
HybridWithAnalysis(cfg, hw, summary, memory_dur, comm_dur) ==
  HybridDetailed(hw, summary.compute_duration, memory_dur, comm_dur, summary.other_duration,
                 apply_hardware_improvements(cfg, summary.compute_duration, memory_dur,
                                             comm_dur, summary.other_duration))

\* a fallback that reports the sum of the two factors as the averaged improvement
HybridAveraged_sum(hw, sim) ==
  IF sim.err # "none" THEN sim
  ELSE
    LET avg_improvement ==
          PyDiv(RAdd(hw.improvement_factor, sim.improvement_factor), R(2, 1))
    IN  [hybrid_tgs |-> RMul(hw.baseline_tgs, avg_improvement),
         sim_contribution |-> sim,
         averaged_improvement |->
           RAdd(hw.improvement_factor, sim.improvement_factor)] @@ hw

\* calculate_hybrid_correlation_tgs, the else branch after sim_result is computed
HybridAveraged(hw, sim) ==
  IF sim.err # "none" THEN sim
  ELSE
    LET avg_improvement ==
          PyDiv(RAdd(hw.improvement_factor, sim.improvement_factor), R(2, 1))
    IN  [hybrid_tgs |-> RMul(hw.baseline_tgs, avg_improvement),
         sim_contribution |-> sim,
         averaged_improvement |-> avg_improvement] @@ hw

\* calculate_hybrid_correlation_tgs, after hw_result is computed; resource_analysis
\* is None or <<analysis>>, and the result is {**hw_result, ...}
HybridFrom(cfg, hw, simulation_duration, frequency, resource_analysis) ==
  IF hw.err # "none" THEN hw
  ELSE IF resource_analysis # None
  THEN HybridWithAnalysis(
         cfg, hw, resource_analysis[1].summary,
         RMul(resource_analysis[1].summary.memory_comm_duration, cfg.memory_copy),
         RMul(resource_analysis[1].summary.memory_comm_duration, cfg.communication))
  ELSE HybridAveraged(hw, calculate_pure_simulation_tgs(cfg, simulation_duration, frequency))

calculate_hybrid_correlation_tgs(cfg, simulation_duration, frequency, resource_analysis) ==
  HybridFrom(cfg, calculate_hardware_calibrated_tgs(cfg, simulation_duration, frequency),
             simulation_duration, frequency, resource_analysis)

(***************************************************************************)
(* HardwareProjectionConfig.  The configuration is modelled flat, one      *)
(* field per leaf the engine reads:                                        *)
(*   xecore_compute, hbm_bandwidth, fabrication_process,                   *)
(*   bandwidth_improvement, latency_improvement  improvement_factors.*.value *)
(*   memory_copy, communication                  ex_u1_split.*             *)
(*   w_compute, w_memory, w_communication        fallback_weights.*        *)
(*   correlation_factor                          simulation_correlation.*  *)
(*   ttft_ms, tpot_ms, baseline_frequency,                                 *)
(*   tokens_input, tokens_output                 baseline_measurements.*   *)
(*   enabled_approaches                          calculation_settings.*    *)
(* The default improvement factors and correlation factor have irrational  *)
(* powers or do not fit the integers of the model, so every configuration  *)
(* file of the model gives these leaves; the other defaults are the code's. *)
(***************************************************************************)
default_config ==
  [enabled_approaches |-> <<"all">>,
   memory_copy |-> R(30, 100), communication |-> R(70, 100),
   w_compute |-> R(4, 10), w_memory |-> R(3, 10), w_communication |-> R(3, 10),
   ttft_ms |-> R(8336, 1), tpot_ms |-> R(5346, 100), baseline_frequency |-> 1600,
   tokens_input |-> 112, tokens_output |-> 2]

\* leaf by leaf, the file's value takes precedence
_merge_configs(default, override) ==
  [key \in (DOMAIN default) \cup (DOMAIN override) |->
     IF key \in DOMAIN override THEN override[key] ELSE default[key]]

load_config(file_config) == _merge_configs(default_config, file_config)

ApproachValues == {"hardware_calibrated", "pure_simulation", "hybrid_correlation", "all"}

InList(x, list) == \E i \in DOMAIN list : list[i] = x

\* a fallback to all three strategies when no configured name is valid
get_enabled_approaches_all(cfg) ==
  LET enabled == cfg.enabled_approaches
      approaches_found == SelectSeq(enabled, LAMBDA name : name \in ApproachValues)
  IN  IF InList("all", enabled) \/ approaches_found = <<>>
      THEN <<"hardware_calibrated", "pure_simulation", "hybrid_correlation">>
      ELSE approaches_found

get_enabled_approaches(cfg) ==
  LET enabled == cfg.enabled_approaches
      approaches_found == SelectSeq(enabled, LAMBDA name : name \in ApproachValues)
  IN  IF InList("all", enabled)
      THEN <<"hardware_calibrated", "pure_simulation", "hybrid_correlation">>
      ELSE IF approaches_found # <<>> THEN approaches_found
      ELSE <<"hardware_calibrated">>

(***************************************************************************)
(* establish_tgs_correlation                                               *)
(***************************************************************************)
\* the returned {}: a result with no field
EmptyDict == [err |-> "none"]

\* self.sim_data[self.sim_data['Frequency'] == label]
RowsAt(rows, label) == SelectSeq(rows, LAMBDA row : row.Frequency = label)

\* abs(tgs_ratio - 1.0) < 0.1
correlation_valid(tgs_ratio) == RLt(RAbs(RSub(tgs_ratio, One)), R(1, 10))

establish_tgs_correlation(cfg, data) ==
  LET baseline_freq == cfg.baseline_frequency
      baseline_rows ==
        IF data = None THEN <<>> ELSE RowsAt(data[1], FrequencyLabel(baseline_freq))
  IN
  IF baseline_rows = <<>> THEN EmptyDict
  ELSE
    LET baseline_sim_data == baseline_rows[1]
        baseline_ttft == Seconds(cfg.ttft_ms)
        baseline_tpot == Seconds(cfg.tpot_ms)
        measured_total_time ==
          RAdd(baseline_ttft, RMul(baseline_tpot, R(cfg.tokens_output, 1)))
    IN
    IF IsZero(measured_total_time) THEN Raise("ZeroDivisionError")
    ELSE
      LET measured_tgs == PyDiv(TotalTokens(cfg), measured_total_time)
          sim_duration == baseline_sim_data.total_duration
          correlation_factor == cfg.correlation_factor
          sim_time_seconds == RMul(sim_duration, correlation_factor)
          sim_derived_tgs == TgsFromSimTime(cfg, sim_time_seconds)
          tgs_ratio ==
            IF RGt(sim_derived_tgs, Zero) THEN PyDiv(measured_tgs, sim_derived_tgs)
            ELSE Zero
          accuracy_percentage ==
            IF RGt(measured_tgs, Zero)
            THEN RMul(RSub(One, PyDiv(RAbs(RSub(measured_tgs, sim_derived_tgs)),
                                      measured_tgs)),
                      R(100, 1))
            ELSE Zero
      IN  [err |-> "none",
           baseline_frequency_mhz |-> baseline_freq,
           measured_tgs |-> measured_tgs,
           simulation_derived_tgs |-> sim_derived_tgs,
           tgs_correlation_ratio |-> tgs_ratio,
           correlation_accuracy_percent |-> accuracy_percentage,
           measured_total_time_sec |-> measured_total_time,
           simulation_time_sec |-> sim_time_seconds,
           simulation_duration_units |-> sim_duration,
           correlation_factor_used |-> correlation_factor,
           correlation_valid |-> correlation_valid(tgs_ratio)]

(***************************************************************************)
(* calculate_projections: one iteration of the loop over self.sim_data     *)
(***************************************************************************)
\* projection_result.update(fields), when the approach is enabled
Update(projection_result, enabled, fields) ==
  IF enabled THEN fields @@ projection_result ELSE projection_result

NoResult == [err |-> "none"]

\* the three strategy calls of one row, each made only when its approach is enabled
StrategyCalls(cfg, enabled, total_duration, freq_num, resource_analysis) ==
  [hw |->
     IF InList("hardware_calibrated", enabled)
     THEN calculate_hardware_calibrated_tgs(cfg, total_duration, freq_num)
     ELSE NoResult,
   sim |->
     IF InList("pure_simulation", enabled)
     THEN calculate_pure_simulation_tgs(cfg, total_duration, freq_num)
     ELSE NoResult,
   hybrid |->
     IF InList("hybrid_correlation", enabled)
     THEN calculate_hybrid_correlation_tgs(cfg, total_duration, freq_num, resource_analysis)
     ELSE NoResult]

\* the exception that ends the iteration, the calls being made in the order A, B, C
FirstError(calls) ==
  IF calls.hw.err # "none" THEN calls.hw.err
  ELSE IF calls.sim.err # "none" THEN calls.sim.err
  ELSE calls.hybrid.err

ProjectionResult(row, enabled, freq_num, resource_analysis, calls) ==
  LET base == [frequency |-> freq_num,
               frequency_str |-> row.Frequency,
               total_simulation_duration |-> row.total_duration,
               resource_analysis_available |-> resource_analysis # None]
      withA == Update(base, InList("hardware_calibrated", enabled),
                      [hw_calibrated_baseline_tgs |-> calls.hw.baseline_tgs,
                       hw_calibrated_improved_tgs |-> calls.hw.improved_tgs,
                       hw_calibrated_improvement |-> calls.hw.improvement_factor])
      withB == Update(withA, InList("pure_simulation", enabled),
                      [pure_sim_current_tgs |-> calls.sim.current_tgs,
                       pure_sim_improved_tgs |-> calls.sim.improved_tgs,
                       pure_sim_improvement |-> calls.sim.improvement_factor])
  IN  Update(withB, InList("hybrid_correlation", enabled),
             [hybrid_baseline_tgs |-> calls.hybrid.baseline_tgs,
              hybrid_improved_tgs |-> calls.hybrid.hybrid_tgs,
              hybrid_improvement |->
                IF "detailed_improvement" \in DOMAIN calls.hybrid
                THEN calls.hybrid.detailed_improvement
                ELSE calls.hybrid.averaged_improvement])

(***************************************************************************)
(* Inputs of the projection run: a configuration file, the frequency       *)
(* summary output/master_summary.csv and the per-resource table of the     *)
(* 1600 MHz run.  The inputs vary one family at a time around a base run.  *)
(***************************************************************************)
BaseFile ==
  [xecore_compute |-> R(1, 1024), hbm_bandwidth |-> R(1024, 1),
   fabrication_process |-> R(3, 4),
   bandwidth_improvement |-> R(1024, 1), latency_improvement |-> R(1024, 1),
   correlation_factor |-> R(1, 1000),
   ttft_ms |-> R(8000, 1), tpot_ms |-> R(500, 1)]

\* a file that gives the leaves of `leaves` and, for the rest, what BaseFile gives
FileWith(leaves) == leaves @@ BaseFile

TimeRatios == {R(1, 1024), One, R(1024, 1)}

Multipliers == {R(1, 1024), One, R(1024, 1)}

FabricationRatios == {R(1, 2), R(3, 4), One, R(2, 1)}

\* <<bandwidth_improvement, latency_improvement>>
CommunicationPairs == {<<One, One>>, <<R(1024, 1), R(1024, 1)>>}

Fifths == {R(k, 5) : k \in 0..5}

\* the weight vectors of fifths that sum to 1, the default one, and two that do not
WeightVectors ==
  {w \in Fifths \X Fifths \X Fifths : RAdd(RAdd(w[1], w[2]), w[3]) = One}
    \cup {<<R(4, 10), R(3, 10), R(3, 10)>>, <<R(1, 2), R(1, 2), R(1, 2)>>, <<Zero, Zero, Zero>>}

\* files whose improvement factors are all positive
FactorFiles ==
  {FileWith([xecore_compute |-> x, hbm_bandwidth |-> h, fabrication_process |-> f,
             bandwidth_improvement |-> c[1], latency_improvement |-> c[2],
             w_compute |-> w[1], w_memory |-> w[2], w_communication |-> w[3]]) :
     <<x, h, f, c, w>> \in
       TimeRatios \X Multipliers \X FabricationRatios \X CommunicationPairs \X WeightVectors}

\* the factor values that are not positive; a negative compute ratio or memory
\* multiplier has a complex power and is left out
NonPositiveLeaves ==
  {[xecore_compute |-> Zero], [hbm_bandwidth |-> Zero],
   [fabrication_process |-> Zero], [fabrication_process |-> R(-1, 1)],
   [fabrication_process |-> R(-1, 2)],
   [bandwidth_improvement |-> Zero], [latency_improvement |-> Zero],
   [bandwidth_improvement |-> R(-1, 1)], [latency_improvement |-> R(-1024, 1)],
   [bandwidth_improvement |-> R(-1024, 1), latency_improvement |-> R(-1024, 1)],
   [xecore_compute |-> Zero, fabrication_process |-> R(-1, 1)],
   [hbm_bandwidth |-> Zero, bandwidth_improvement |-> Zero]}

\* files with a factor that is not positive
NonPositiveFiles ==
  {FileWith(leaves @@ [w_communication |-> w]) :
     leaves \in NonPositiveLeaves, w \in {Zero, R(3, 10)}}

SplitRatios == {Zero, R(3, 10), R(1, 2), R(7, 10), One}

SplitFiles ==
  {FileWith([memory_copy |-> m]) : m \in SplitRatios}
    \cup {FileWith([memory_copy |-> m, communication |-> c]) : m, c \in SplitRatios}

ApproachLists ==
  {<<>>, <<"all">>, <<"hardware_calibrated">>, <<"pure_simulation">>,
   <<"hybrid_correlation">>, <<"hybrid_correlation", "pure_simulation">>,
   <<"roofline">>, <<"roofline", "pure_simulation">>, <<"pure_simulation", "all">>,
   <<"pure_simulation", "pure_simulation">>, <<"ALL", "hybrid_correlation">>}

ApproachFiles == {FileWith([enabled_approaches |-> a]) : a \in ApproachLists}

BaselineFiles ==
  {FileWith([ttft_ms |-> t, tpot_ms |-> p, baseline_frequency |-> b,
             correlation_factor |-> k]) :
     <<t, p, b, k>> \in
       {Zero, R(4000, 1), R(8000, 1)} \X {Zero, R(500, 1)} \X {0, 1600, 2000}
         \X {Zero, R(1, 1000), R(1, 500), R(-1, 1000)}}

FrequencyLabels ==
  {FrequencyLabel(600), FrequencyLabel(1600), FrequencyLabel(2000), FrequencyLabel(0),
   <<"turbo">>}

SimDurations == {Zero, R(9000, 1), R(18000, 1), R(-9000, 1)}

MasterRows == [Frequency : FrequencyLabels, total_duration : SimDurations]

BaseMaster ==
  <<[Frequency |-> FrequencyLabel(600), total_duration |-> R(18000, 1)],
    [Frequency |-> FrequencyLabel(1600), total_duration |-> R(9000, 1)]>>

\* no file, or a table of at most two rows
MasterTables ==
  {None, Some(<<>>)} \cup {Some(<<r>>) : r \in MasterRows}
    \cup {Some(<<r1, r2>>) : r1, r2 \in MasterRows}

ResourceRow(path, duration) ==
  [RESOURCE |-> path, DURATION |-> duration, TRANSITION |-> "t"]

NumberCell == [kind |-> "num", val |-> 1]

TextCell == [kind |-> "text", val |-> 0]

ComputePath == <<"gt", "/", "GT_TILE_", "0", "/", "ex_u", "0">>

MemoryCommPath == <<"gt", "/", "GT_TILE_", "0", "/", "ex_u", "1">>

OtherPath == <<"gt", "/", "fabric">>

\* no file, or a few per-resource tables of the 1600 MHz run
ResourceTables ==
  {None, Some(<<>>),
   Some(<<ResourceRow(MemoryCommPath, NumberCell)>>),
   Some(<<ResourceRow(ComputePath, NumberCell), ResourceRow(MemoryCommPath, NumberCell)>>),
   Some(<<ResourceRow(MemoryCommPath, NumberCell), ResourceRow(OtherPath, NumberCell)>>),
   Some(<<ResourceRow(ComputePath, NumberCell), ResourceRow(OtherPath, NumberCell)>>),
   Some(<<ResourceRow(MemoryCommPath, TextCell)>>)}

BaseResources ==
  Some(<<ResourceRow(ComputePath, NumberCell), ResourceRow(MemoryCommPath, NumberCell)>>)

\* a table with one compute record: the hybrid improvement is then a power of two
\* whatever the factors, which keeps the statistics within the integers of the model
ComputeResources == Some(<<ResourceRow(ComputePath, NumberCell)>>)

\* files whose compute, memory and communication factors improve their buckets by
\* different ratios
DistinctFactorFiles ==
  {FileWith([xecore_compute |-> x, hbm_bandwidth |-> h,
             bandwidth_improvement |-> c[1], latency_improvement |-> c[2]]) :
     <<x, h, c>> \in {<<R(1, 1024), One, <<One, One>>>>,
                      <<One, R(1024, 1), <<One, One>>>>,
                      <<One, One, <<R(1024, 1), R(1024, 1)>>>>,
                      <<One, R(1, 1024), <<One, One>>>>,
                      <<R(1024, 1), One, <<R(1024, 1), R(1024, 1)>>>>}}

\* a frequency summary with the baseline row only
BaselineRowMaster == <<[Frequency |-> FrequencyLabel(1600), total_duration |-> R(9000, 1)]>>

\* a frequency summary whose baseline row has a zero simulated duration
ZeroDurationMaster ==
  <<[Frequency |-> FrequencyLabel(1600), total_duration |-> Zero],
    [Frequency |-> FrequencyLabel(2000), total_duration |-> R(9000, 1)]>>

\* <<configuration file, master_summary.csv, simulation_results.csv>>
Runs ==
  (FactorFiles \X {Some(BaseMaster)} \X {ComputeResources})
    \cup (NonPositiveFiles \X {Some(BaseMaster)} \X ResourceTables)
    \cup (DistinctFactorFiles \X {Some(BaselineRowMaster)} \X ResourceTables)
    \cup (NonPositiveFiles \X {Some(ZeroDurationMaster)} \X {None})
    \cup (SplitFiles \X {Some(BaseMaster)} \X ResourceTables)
    \cup (ApproachFiles \X {None, Some(BaseMaster)} \X {None, BaseResources})
    \cup (BaselineFiles \X {Some(BaseMaster)} \X {None})
    \cup ({BaseFile} \X MasterTables \X {None, BaseResources})

\* the lists InteractiveProjectionTool passes to calculate_projections
RequestedApproaches ==
  {<<"hardware_calibrated">>, <<"pure_simulation">>, <<"hybrid_correlation">>,
   <<"hardware_calibrated", "pure_simulation", "hybrid_correlation">>}

\* <<configuration file, master_summary.csv, simulation_results.csv, approaches>>:
\* the runs of main(), which passes no approaches, and those of the interactive tool
RequestedRuns ==
  {<<run[1], run[2], run[3], None>> : run \in Runs} \cup
  {<<file, Some(BaseMaster), BaseResources, asked>> :
     file \in ApproachFiles, asked \in RequestedApproaches}

(***************************************************************************)
(* The projection run of main(): construction, correlation, projections    *)
(***************************************************************************)
InitProject ==
  /\ pc = "start"
  /\ \E run \in RequestedRuns :
       /\ config_file = Some(run[1])
       /\ master_csv = run[2]
       /\ csv = run[3]
       /\ approaches = run[4]
  /\ raw_data = <<>>
  /\ analysis = None
  /\ config = None /\ sim_data = None /\ correlation = None
  /\ row_index = 0 /\ projections = <<>>
  /\ hw_result = None /\ sim_result = None /\ hybrid_result = None
  /\ error = "none"
  /\ comparison = None
  /\ IdleStudy

\* EnhancedHardwareProjector.__init__: the configuration is loaded and the data read;
\* a missing master_summary.csv leaves sim_data None and the raw tables unread
Construct ==
  /\ pc = "start"
  /\ config' = Some(load_config(config_file[1]))
  /\ sim_data' = master_csv
  /\ raw_data' = IF master_csv = None THEN <<>> ELSE LoadRaw(csv)
  /\ pc' = "constructed"
  /\ UNCHANGED <<csv, analysis, config_file, master_csv, correlation, approaches,
                 row_index, projections, hw_result, sim_result, hybrid_result, error,
                 comparison, study>>

EstablishCorrelation ==
  /\ pc = "constructed"
  /\ LET result == establish_tgs_correlation(config[1], sim_data)
     IN  IF result.err # "none"
         THEN /\ pc' = "raised"
              /\ error' = result.err
              /\ UNCHANGED correlation
         ELSE /\ pc' = "correlated"
              /\ correlation' = Some(result)
              /\ UNCHANGED error
  /\ UNCHANGED <<classifyVars, config_file, master_csv, config, sim_data, approaches,
                 row_index, projections, hw_result, sim_result, hybrid_result, comparison,
                 study>>

\* calculate_projections(approaches), up to the loop: `if approaches is None`
\* the configured approaches are used
BeginProjections ==
  /\ pc = "correlated"
  /\ approaches' = IF approaches = None THEN get_enabled_approaches(config[1])
                   ELSE approaches
  /\ projections' = <<>>
  /\ row_index' = 0
  /\ pc' = IF sim_data = None THEN "done" ELSE "projecting"
  /\ UNCHANGED <<classifyVars, config_file, master_csv, config, sim_data, correlation,
                 hw_result, sim_result, hybrid_result, error, comparison, study>>

\* the iteration ends with an exception, which leaves the loop and the function
RaiseInRow(exception) ==
  /\ pc' = "raised"
  /\ error' = exception
  /\ projections' = <<>>
  /\ UNCHANGED <<analysis, row_index, hw_result, sim_result, hybrid_result>>

\* the iteration once the three strategy calls have been made
FinishRow(row, freq_num, resource_analysis, calls) ==
  IF FirstError(calls) # "none" THEN RaiseInRow(FirstError(calls))
  ELSE /\ analysis' = resource_analysis
       /\ hw_result' = IF InList("hardware_calibrated", approaches)
                       THEN Some(calls.hw) ELSE hw_result
       /\ sim_result' = IF InList("pure_simulation", approaches)
                        THEN Some(calls.sim) ELSE sim_result
       /\ hybrid_result' = IF InList("hybrid_correlation", approaches)
                           THEN Some(calls.hybrid) ELSE hybrid_result
       /\ projections' =
            Append(projections,
                   ProjectionResult(row, approaches, freq_num, resource_analysis, calls))
       /\ row_index' = row_index + 1
       /\ UNCHANGED <<pc, error>>

\* the iteration once the frequency label is read: freq_num is None for a ValueError
ProjectRowAt(row, freq_num, resource_analysis) ==
  IF freq_num = None THEN RaiseInRow("ValueError")
  ELSE FinishRow(row, freq_num[1], resource_analysis,
                 StrategyCalls(config[1], approaches, row.total_duration, freq_num[1],
                               resource_analysis))

\* one iteration of the loop
ProjectRow ==
  /\ pc = "projecting"
  /\ row_index < Len(sim_data[1])
  /\ ProjectRowAt(sim_data[1][row_index + 1],
                  ParseInt(ReplaceMHz(sim_data[1][row_index + 1].Frequency)),
                  analyze_resource_types(
                    RawGet(raw_data, ReplaceMHz(sim_data[1][row_index + 1].Frequency))))
  /\ UNCHANGED <<csv, raw_data, config_file, master_csv, config, sim_data, correlation,
                 approaches, comparison, study>>

\* the loop is over: pd.DataFrame(projections) is returned
ReturnProjections ==
  /\ pc = "projecting"
  /\ row_index = Len(sim_data[1])
  /\ pc' = "done"
  /\ UNCHANGED <<classifyVars, projectVars, study>>

(***************************************************************************)
(* generate_comparison_analysis                                            *)
(***************************************************************************)
\* projections_df[col]
Column(df, col) == [i \in 1..Len(df) |-> df[i][col]]

\* Series.dropna()
dropna(values) == SelectSeq(values, LAMBDA v : ~IsNaN(v))

RECURSIVE SumSeq(_)
SumSeq(values) ==
  IF values = <<>> THEN Zero
  ELSE RAdd(SumSeq(SubSeq(values, 1, Len(values) - 1)), values[Len(values)])

\* Series.mean(), .min(), .max() of a series without nan: nan for an empty series
Mean(values) ==
  IF values = <<>> THEN NaN ELSE NpDiv(SumSeq(values), R(Len(values), 1))

RECURSIVE MinSeq(_)
MinSeq(values) ==
  IF values = <<>> THEN NaN
  ELSE IF Len(values) = 1 THEN values[1]
  ELSE LET rest == MinSeq(Tail(values))
       IN  IF RLt(rest, values[1]) THEN rest ELSE values[1]

RECURSIVE MaxSeq(_)
MaxSeq(values) ==
  IF values = <<>> THEN NaN
  ELSE IF Len(values) = 1 THEN values[1]
  ELSE LET rest == MaxSeq(Tail(values))
       IN  IF RGt(rest, values[1]) THEN rest ELSE values[1]

\* Series.std() (ddof = 1) times sqrt(2), for the series of at most two values that
\* the frequency summaries of the model give: nan for fewer than two values,
\* |a - b| / sqrt(2) for two
StdTimesSqrt2(values) ==
  IF Len(values) < 2 THEN NaN ELSE RAbs(RSub(values[1], values[2]))

\* the column of an approach
ImprovedTgsColumn(approach) ==
  CASE approach = "hardware_calibrated" -> "hw_calibrated_improved_tgs"
    [] approach = "pure_simulation" -> "pure_sim_improved_tgs"
    [] approach = "hybrid_correlation" -> "hybrid_improved_tgs"

\* one entry of analysis['summary_statistics']; std_tgs_sqrt2 is std_tgs * sqrt(2)
Statistics(values) ==
  [mean_tgs |-> Mean(values),
   min_tgs |-> MinSeq(values),
   max_tgs |-> MaxSeq(values),
   std_tgs_sqrt2 |-> StdTimesSqrt2(values),
   range_tgs |-> RSub(MaxSeq(values), MinSeq(values))]

\* analysis['summary_statistics']: one entry per enabled approach whose column exists
summary_statistics(df, enabled_approaches) ==
  [approach \in {a \in {enabled_approaches[i] : i \in DOMAIN enabled_approaches} :
                   ImprovedTgsColumn(a) \in DOMAIN df[1]} |->
     Statistics(dropna(Column(df, ImprovedTgsColumn(approach))))]

\* the keys of a dict in insertion order
RECURSIVE Keys(_, _)
Keys(enabled_approaches, stats) ==
  IF enabled_approaches = <<>> THEN <<>>
  ELSE LET init == Keys(SubSeq(enabled_approaches, 1, Len(enabled_approaches) - 1), stats)
           last == enabled_approaches[Len(enabled_approaches)]
       IN  IF last \in DOMAIN stats /\ ~InList(last, init) THEN Append(init, last) ELSE init

\* min(keys, key=...) and max(keys, key=...): the first of the smallest (largest)
RECURSIVE MinKey(_, _)
MinKey(keys, stats) ==
  IF Len(keys) = 1 THEN keys[1]
  ELSE LET best == MinKey(SubSeq(keys, 1, Len(keys) - 1), stats)
       IN  IF RLt(stats[keys[Len(keys)]].mean_tgs, stats[best].mean_tgs)
           THEN keys[Len(keys)] ELSE best

RECURSIVE MaxKey(_, _)
MaxKey(keys, stats) ==
  IF Len(keys) = 1 THEN keys[1]
  ELSE LET best == MaxKey(SubSeq(keys, 1, Len(keys) - 1), stats)
       IN  IF RGt(stats[keys[Len(keys)]].mean_tgs, stats[best].mean_tgs)
           THEN keys[Len(keys)] ELSE best

\* analysis['recommendations']: the sentences are modelled by what they name, the
\* averages and the range being kept exact (the text shows two decimals)
Recommendations(keys, stats) ==
  IF Len(keys) > 1
  THEN <<[text |-> "Most conservative estimate", approach |-> MinKey(keys, stats),
          value |-> stats[MinKey(keys, stats)].mean_tgs],
         [text |-> "Most optimistic estimate", approach |-> MaxKey(keys, stats),
          value |-> stats[MaxKey(keys, stats)].mean_tgs],
         [text |-> "Range between approaches", approach |-> "",
          value |-> RSub(stats[MaxKey(keys, stats)].mean_tgs,
                         stats[MinKey(keys, stats)].mean_tgs)]>>
         \o (IF InList("hybrid_correlation", keys)
             THEN <<[text |-> "Hybrid approach recommended",
                     approach |-> "hybrid_correlation", value |-> NaN]>>
             ELSE <<>>)
  ELSE <<>>

ComparisonFrom(enabled_approaches, stats) ==
  [err |-> "none",
   summary_statistics |-> stats,
   approach_comparison |-> <<>>,
   frequency_trends |-> <<>>,
   recommendations |-> Recommendations(Keys(enabled_approaches, stats), stats)]

generate_comparison_analysis(cfg, projections_df) ==
  IF projections_df = <<>> THEN EmptyDict
  ELSE ComparisonFrom(get_enabled_approaches(cfg),
                      summary_statistics(projections_df, get_enabled_approaches(cfg)))

\* main(): `if not projections_df.empty:` the comparison is generated
GenerateComparison ==
  /\ pc = "done"
  /\ pc' = "compared"
  /\ comparison' = IF projections # <<>>
                   THEN Some(generate_comparison_analysis(config[1], projections))
                   ELSE comparison
  /\ UNCHANGED <<classifyVars, config_file, master_csv, config, sim_data, correlation,
                 approaches, row_index, projections, hw_result, sim_result, hybrid_result,
                 error, study>>

NextProject ==
  \/ Construct \/ EstablishCorrelation \/ BeginProjections \/ ProjectRow
  \/ ReturnProjections \/ GenerateComparison

SpecProject == InitProject /\ [][NextProject]_vars

(***************************************************************************)
(* PVCCorrelationStudy (pvc_correlation_study.py)                          *)
(***************************************************************************)
pvc_measurements ==
  [ttft_ms |-> R(8336, 1), tpot_ms |-> R(5346, 100), baseline_frequency |-> 1600,
   tokens_input |-> 112, tokens_output |-> 2, total_tokens |-> 114]

calculate_measured_performance ==
  LET ttft_sec == PyDiv(pvc_measurements.ttft_ms, R(1000, 1))
      tpot_sec == PyDiv(pvc_measurements.tpot_ms, R(1000, 1))
      total_time == RAdd(ttft_sec, RMul(tpot_sec, R(pvc_measurements.tokens_output, 1)))
  IN  [ttft_seconds |-> ttft_sec,
       tpot_seconds |-> tpot_sec,
       total_processing_time |-> total_time,
       measured_tgs |-> PyDiv(R(pvc_measurements.total_tokens, 1), total_time)]

EmptyWorkload ==
  [compute_tasks |-> <<>>, memory_comm_tasks |-> <<>>, other_gt_tasks |-> <<>>,
   compute_duration |-> Zero, memory_comm_duration |-> Zero, other_duration |-> Zero]

\* one iteration of the loop of analyze_simulation_workload: the row itself is
\* appended (row.to_dict()) and TRANSITION is not read
WorkloadRow(acc, row) ==
  IF Contains(row.RESOURCE, EX_U0) /\ Contains(row.RESOURCE, GT_TILE)
  THEN [acc EXCEPT !.compute_tasks = Append(@, row),
                   !.compute_duration = RAdd(@, row.DURATION)]
  ELSE IF Contains(row.RESOURCE, EX_U1) /\ Contains(row.RESOURCE, GT_TILE)
  THEN [acc EXCEPT !.memory_comm_tasks = Append(@, row),
                   !.memory_comm_duration = RAdd(@, row.DURATION)]
  ELSE IF StartsWith(row.RESOURCE, GT_PREFIX)
  THEN [acc EXCEPT !.other_gt_tasks = Append(@, row),
                   !.other_duration = RAdd(@, row.DURATION)]
  ELSE acc

RECURSIVE WorkloadLoop(_, _, _)
WorkloadLoop(rows, i, acc) ==
  IF i > Len(rows) THEN acc ELSE WorkloadLoop(rows, i + 1, WorkloadRow(acc, rows[i]))

\* the workload breakdown of a non-empty GT table
analyze_simulation_workload(gt_sim_data) ==
  LET acc == WorkloadLoop(CoerceAndDrop(gt_sim_data), 1, EmptyWorkload)
      total_gt_duration ==
        RAdd(RAdd(acc.compute_duration, acc.memory_comm_duration), acc.other_duration)
  IN  [compute_duration |-> acc.compute_duration,
       memory_comm_duration |-> acc.memory_comm_duration,
       other_duration |-> acc.other_duration,
       total_gt_duration |-> total_gt_duration,
       compute_percentage |-> Percentage(acc.compute_duration, total_gt_duration),
       memory_comm_percentage |-> Percentage(acc.memory_comm_duration, total_gt_duration),
       other_percentage |-> Percentage(acc.other_duration, total_gt_duration),
       task_counts |-> [compute_tasks |-> Len(acc.compute_tasks),
                        memory_comm_tasks |-> Len(acc.memory_comm_tasks),
                        other_tasks |-> Len(acc.other_gt_tasks)]]

\* self.workload_breakdown after analyze_simulation_workload() on an object whose
\* gt_sim_data is None (<<>>) or <<table>>: nothing is stored for no or an empty table
WorkloadBreakdown(gt_sim_data) ==
  IF gt_sim_data = None \/ Len(gt_sim_data[1]) = 0 THEN None
  ELSE Some(analyze_simulation_workload(gt_sim_data[1]))

\* PVCCorrelationStudy.load_simulation_data: what it leaves in the object
StudyData(master, file) ==
  LET freq_1600_row == IF master = None THEN <<>> ELSE RowsAt(master[1], FrequencyLabel(1600))
      gt_sim_data == IF file = None THEN <<>> ELSE FilterGT(file[1])
      loaded == freq_1600_row # <<>> /\ file # None
  IN  [sim_total_duration |->
         IF freq_1600_row = <<>> THEN None ELSE Some(freq_1600_row[1].total_duration),
       gt_sim_data |->
         IF ~loaded THEN None
         ELSE IF gt_sim_data = <<>> THEN Some(gt_sim_data)
         ELSE Some(CoerceAndDrop(gt_sim_data)),
       workload_breakdown |->
         IF loaded /\ gt_sim_data # <<>> THEN Some(analyze_simulation_workload(gt_sim_data))
         ELSE None]

\* sim_duration is a numpy float64: dividing by it raises nothing
calculate_correlation_factors(measured_performance, sim_duration) ==
  LET measured_time == measured_performance.total_processing_time
      correlation_factor == NpDiv(measured_time, sim_duration)
      ttft_correlation == NpDiv(measured_performance.ttft_seconds, sim_duration)
      tgs_from_sim ==
        NpDiv(R(pvc_measurements.total_tokens, 1), RMul(sim_duration, correlation_factor))
      difference == RAbs(RSub(tgs_from_sim, measured_performance.measured_tgs))
  IN  [primary_correlation_factor |-> correlation_factor,
       simulation_duration_units |-> sim_duration,
       measured_time_seconds |-> measured_time,
       ttft_correlation_factor |-> ttft_correlation,
       calculated_tgs_from_sim |-> tgs_from_sim,
       measured_tgs |-> measured_performance.measured_tgs,
       tgs_validation_match |-> RLt(difference, R(1, 100)),
       correlation_accuracy |->
         RMul(PyDiv(difference, measured_performance.measured_tgs), R(100, 1))]

StudyDurations == {Zero, One, R(2, 1), R(1000, 1), R(-1, 1), R(-1000, 1)}

StudyRows == [Frequency : {FrequencyLabel(600), FrequencyLabel(1600)},
              total_duration : StudyDurations]

StudyMasters ==
  {None, Some(<<>>)} \cup {Some(<<r>>) : r \in StudyRows}
    \cup {Some(<<r1, r2>>) : r1, r2 \in StudyRows}

InitStudy ==
  /\ pc = "start"
  /\ master_csv \in StudyMasters
  /\ csv \in ResourceTables
  /\ study = None
  /\ raw_data = <<>> /\ analysis = None
  /\ config_file = None /\ config = None /\ sim_data = None /\ correlation = None
  /\ approaches = <<>> /\ row_index = 0 /\ projections = <<>>
  /\ hw_result = None /\ sim_result = None /\ hybrid_result = None /\ error = "none"
  /\ comparison = None

\* PVCCorrelationStudy.__init__
ConstructStudy ==
  /\ pc = "start"
  /\ study' = Some([measured_performance |-> calculate_measured_performance,
                    correlation_results |-> None] @@ StudyData(master_csv, csv))
  /\ pc' = "constructed"
  /\ UNCHANGED <<classifyVars, projectVars>>

\* run_complete_study, up to the test of correlation_results
CalculateCorrelationFactors ==
  /\ pc = "constructed"
  /\ IF study[1].sim_total_duration = None
     THEN /\ pc' = "failed"
          /\ UNCHANGED study
     ELSE /\ pc' = "correlated"
          /\ study' =
               Some([study[1] EXCEPT !.correlation_results =
                       Some(calculate_correlation_factors(study[1].measured_performance,
                                                          study[1].sim_total_duration[1]))])
  /\ UNCHANGED <<classifyVars, projectVars>>

NextStudy == ConstructStudy \/ CalculateCorrelationFactors

SpecStudy == InitStudy /\ [][NextStudy]_vars

(***************************************************************************)
(* Properties of the projection run and of the correlation study           *)
(***************************************************************************)
Factors(cfg) ==
  {cfg.xecore_compute, cfg.hbm_bandwidth, cfg.fabrication_process,
   cfg.bandwidth_improvement, cfg.latency_improvement}

AllFactorsPositive(cfg) == \A factor \in Factors(cfg) : RGt(factor, Zero)

WeightsSumToOne(cfg) == RAdd(RAdd(cfg.w_compute, cfg.w_memory), cfg.w_communication) = One

SplitSumsToOne(cfg) == RAdd(cfg.memory_copy, cfg.communication) = One

\* the hybrid strategy returned a result computed from a classification
HybridFromClassification ==
  hybrid_result # None /\ "detailed_improvement" \in DOMAIN hybrid_result[1]

\* the row of the frequency summary projected last
LastRow == sim_data[1][row_index]

\* C5: when the configured split ratios memory_copy and communication do not sum
\* to 1, no hybrid projection is produced from them: whenever the hybrid strategy
\* has returned a result computed from a classification, the ratios sum to 1.
C5_NoHybridFromBadSplit == HybridFromClassification => SplitSumsToOne(config[1])

\* C6: in every classification used by a projection, memory_duration +
\* communication_duration equals the memory_comm bucket total, and the hybrid
\* strategy's total original duration equals the classifier's total_duration.
C6_SplitPreservesTotal ==
  HybridFromClassification =>
    /\ RAdd(hybrid_result[1].memory_dur, hybrid_result[1].comm_dur)
         = analysis[1].summary.memory_comm_duration
    /\ hybrid_result[1].total_original = analysis[1].summary.total_duration

\* C7: when an improvement factor of the configuration is <= 0, no strategy ever
\* returns a result: the run stops before any projection is computed.
C7_NoResultFromNonPositiveFactor ==
  (config # None /\ ~AllFactorsPositive(config[1])) =>
    (hw_result = None /\ sim_result = None /\ hybrid_result = None)

\* C8: for improvement factors that are all > 0 and weights summing to 1, the
\* overall improvement factor is computed without error and is strictly greater
\* than 0, and it is the factor the hardware-calibrated strategy applies.
C8_OverallImprovementPositive ==
  (config # None /\ AllFactorsPositive(config[1]) /\ WeightsSumToOne(config[1])) =>
    /\ _calculate_hardware_improvement_factor(config[1]).err = "none"
    /\ RGt(_calculate_hardware_improvement_factor(config[1]).value, Zero)
    /\ hw_result # None =>
         hw_result[1].improved_tgs =
           RMul(hw_result[1].baseline_tgs,
                _calculate_hardware_improvement_factor(config[1]).value)

\* a projection has been computed with positive factors other than 1, positive
\* weights summing to 1, and the overall factor differs from 1
C8_Witness ==
  /\ pc = "done" /\ hw_result # None
  /\ AllFactorsPositive(config[1]) /\ WeightsSumToOne(config[1])
  /\ \A factor \in Factors(config[1]) : factor # One
  /\ \A w \in {config[1].w_compute, config[1].w_memory, config[1].w_communication} :
       RGt(w, Zero)
  /\ RLt(hw_result[1].improvement_factor, One)

\* C9: the correlation study returns a correlation factor only for a positive
\* simulated duration at the baseline frequency; for a duration <= 0 it fails and
\* returns no factor.
C9_NoFactorFromNonPositiveDuration ==
  (study # None /\ study[1].correlation_results # None) =>
    RGt(study[1].sim_total_duration[1], Zero)

\* C10: calibration identity.  For a projected row whose frequency is the baseline
\* frequency and whose simulated duration is positive, the hardware-calibrated
\* baseline_tgs equals simulation_derived_tgs and the correlation ratio is 1; and a
\* correlation established on a positive baseline duration is valid.
C10_CalibrationIdentity ==
  /\ (pc \in {"projecting", "done"} /\ row_index > 0 /\ hw_result # None
        /\ projections[row_index].frequency = config[1].baseline_frequency
        /\ RGt(LastRow.total_duration, Zero)) =>
       /\ hw_result[1].baseline_tgs = hw_result[1].simulation_derived_tgs
       /\ hw_result[1].tgs_correlation_ratio = One
  /\ (correlation # None /\ correlation[1] # EmptyDict
        /\ RGt(correlation[1].simulation_duration_units, Zero)) =>
       correlation[1].correlation_valid

\* the run is in its projection phase
ProjectionPhase == pc \in {"correlated", "projecting"}

\* C11: the correlation factor is one scalar fixed before the projection phase.
\* Every step of the projection phase leaves the configuration (correlation
\* factor, improvement factors, baseline measurement) and the established
\* correlation unchanged, and every strategy result of a projected row has
\* simulation_time_seconds = that row's duration * the configured factor.
C11_CorrelationFactorFixed ==
  [][ProjectionPhase =>
       /\ config' = config
       /\ correlation' = correlation
       /\ row_index' = row_index + 1 =>
            /\ hw_result' # None =>
                 hw_result'[1].simulation_time_seconds =
                   RMul(sim_data[1][row_index'].total_duration, config[1].correlation_factor)
            /\ sim_result' # None =>
                 sim_result'[1].simulation_time_seconds =
                   RMul(sim_data[1][row_index'].total_duration, config[1].correlation_factor)
            /\ hybrid_result' # None =>
                 hybrid_result'[1].simulation_time_seconds =
                   RMul(sim_data[1][row_index'].total_duration, config[1].correlation_factor)
    ]_vars

\* two rows of different positive durations have been projected by all three
\* strategies with a factor that is neither 0 nor 1
C11_Witness ==
  /\ pc = "done" /\ row_index = 2
  /\ hw_result # None /\ sim_result # None /\ hybrid_result # None
  /\ config[1].correlation_factor \notin {Zero, One}
  /\ sim_data[1][1].total_duration # sim_data[1][2].total_duration
  /\ RGt(sim_data[1][1].total_duration, Zero) /\ RGt(sim_data[1][2].total_duration, Zero)
  /\ sim_result[1].simulation_time_seconds =
       RMul(sim_data[1][2].total_duration, config[1].correlation_factor)

\* hardware-calibrated baseline_tgs at the baseline frequency itself
BaselineTgsAtBaseline(cfg) ==
  calculate_hardware_calibrated_tgs(cfg, Zero, cfg.baseline_frequency).baseline_tgs

\* C12: linear frequency scaling.  For a projected row of frequency f > 0 the
\* hardware-calibrated baseline_tgs is the baseline-frequency value times
\* f / baseline_frequency, TTFT and TPOT both being divided by that ratio,
\* whatever the row's simulated duration.
C12_LinearFrequencyScaling ==
  (pc \in {"projecting", "done"} /\ row_index > 0 /\ hw_result # None
     /\ projections[row_index].frequency > 0) =>
    LET ratio == R(projections[row_index].frequency, config[1].baseline_frequency)
    IN  /\ hw_result[1].baseline_tgs = RMul(BaselineTgsAtBaseline(config[1]), ratio)
        /\ hw_result[1].scaled_ttft = PyDiv(Seconds(config[1].ttft_ms), ratio)
        /\ hw_result[1].scaled_tpot = PyDiv(Seconds(config[1].tpot_ms), ratio)
        /\ projections[row_index].hw_calibrated_baseline_tgs = hw_result[1].baseline_tgs

\* a 2000MHz row has been projected against a 1600MHz baseline: 1.25 times the
\* baseline value
C12_Witness ==
  /\ pc \in {"projecting", "done"} /\ row_index > 0 /\ hw_result # None
  /\ projections[row_index].frequency = 2000 /\ config[1].baseline_frequency = 1600
  /\ hw_result[1].baseline_tgs = RMul(BaselineTgsAtBaseline(config[1]), R(125, 100))
  /\ RGt(hw_result[1].baseline_tgs, Zero)

\* the loop of calculate_projections is about to process a row
AtRow == pc = "projecting" /\ row_index < Len(sim_data[1])

\* that row, its frequency (None if the label is no number) and its classification
NextRow == sim_data[1][row_index + 1]

NextFrequency == ParseInt(ReplaceMHz(NextRow.Frequency))

NextAnalysis == analyze_resource_types(RawGet(raw_data, ReplaceMHz(NextRow.Frequency)))

DefaultWeights(cfg) ==
  cfg.w_compute = R(4, 10) /\ cfg.w_memory = R(3, 10) /\ cfg.w_communication = R(3, 10)

\* C13: the pure-simulation strategy derives its current TGS from the simulated
\* time and applies the same overall-improvement combination as the
\* hardware-calibrated strategy with the weights 0.4/0.3/0.3: when the configured
\* fallback weights are 0.4/0.3/0.3 its improvement_factor equals the
\* hardware-calibrated overall improvement factor.
C13_PureSimulationSameCombination ==
  (pc \in {"projecting", "done"} /\ row_index > 0 /\ sim_result # None
     /\ DefaultWeights(config[1])) =>
    /\ sim_result[1].current_tgs =
         TgsFromSimTime(config[1], RMul(LastRow.total_duration, config[1].correlation_factor))
    /\ sim_result[1].improvement_factor =
         _calculate_hardware_improvement_factor(config[1]).value

\* C14: for a frequency record whose simulated duration is 0 the pure-simulation
\* strategy does not raise and returns finite values for its current (baseline)
\* and improved TGS.
C14_ZeroDurationSentinel ==
  (AtRow /\ InList("pure_simulation", approaches) /\ NextFrequency # None
     /\ NextRow.total_duration = Zero) =>
    LET result == calculate_pure_simulation_tgs(config[1], Zero, NextFrequency[1])
    IN  /\ result.err = "none"
        /\ IsFinite(result.current_tgs)
        /\ IsFinite(result.improved_tgs)

\* C15: a strategy whose denominator is <= 0 reports improvement_factor = 1 for
\* that frequency: the hardware-calibrated and pure-simulation strategies when the
\* simulated time is <= 0, the hybrid strategy when the total improved duration
\* is <= 0.
C15_NonPositiveDenominatorGivesOne ==
  (pc \in {"projecting", "done"} /\ row_index > 0) =>
    /\ (hw_result # None /\ RLe(hw_result[1].simulation_time_seconds, Zero)) =>
         hw_result[1].improvement_factor = One
    /\ (sim_result # None /\ RLe(sim_result[1].simulation_time_seconds, Zero)) =>
         sim_result[1].improvement_factor = One
    /\ (HybridFromClassification
          /\ RLe(hybrid_result[1].resource_breakdown.total_improved_duration, Zero)) =>
         hybrid_result[1].detailed_improvement = One

\* the configuration with its fallback weights replaced
OtherWeights(cfg) == [cfg EXCEPT !.w_compute = One, !.w_memory = Zero, !.w_communication = Zero]

\* the hardware-calibrated baseline_tgs of the row projected last, computed under
\* other fallback weights
LastBaselineTgs ==
  calculate_hardware_calibrated_tgs(OtherWeights(config[1]), LastRow.total_duration,
                                    projections[row_index].frequency).baseline_tgs

\* the improvement model applied to the classified buckets of the row projected
\* last, under other fallback weights
LastImprovements ==
  apply_hardware_improvements(
    OtherWeights(config[1]), analysis[1].summary.compute_duration,
    RMul(analysis[1].summary.memory_comm_duration, config[1].memory_copy),
    RMul(analysis[1].summary.memory_comm_duration, config[1].communication),
    analysis[1].summary.other_duration)

\* total_original_duration of the row projected last
LastTotalOriginal ==
  RAdd(RAdd(RAdd(analysis[1].summary.compute_duration,
                 RMul(analysis[1].summary.memory_comm_duration, config[1].memory_copy)),
            RMul(analysis[1].summary.memory_comm_duration, config[1].communication)),
       analysis[1].summary.other_duration)

\* the row projected last has a hybrid projection computed from a classification
HybridProjected ==
  pc \in {"projecting", "done"} /\ row_index > 0 /\ HybridFromClassification

\* C16 as stated: with a classification the hybrid improved_tgs is always
\* baseline_tgs * (total_original_duration / total_improved_duration).
C16_HybridUnguardedRatio ==
  HybridProjected =>
    projections[row_index].hybrid_improved_tgs =
      RMul(LastBaselineTgs, NpDiv(LastTotalOriginal, LastImprovements.total_improved_duration))

\* C16: when a classification is available, the hybrid baseline_tgs is the
\* hardware-calibrated baseline_tgs of that frequency and improved_tgs =
\* baseline_tgs * detailed_improvement, where detailed_improvement is
\* total_original_duration / total_improved_duration if total_improved_duration
\* > 0 and 1 otherwise, the improved durations being the improvement model applied
\* to the classified buckets; the fallback weights have no influence on it.
C16_HybridFromClassifiedBuckets ==
  HybridProjected =>
    LET detailed_improvement ==
          IF RGt(LastImprovements.total_improved_duration, Zero)
          THEN NpDiv(LastTotalOriginal, LastImprovements.total_improved_duration)
          ELSE One
    IN  /\ projections[row_index].hybrid_baseline_tgs = LastBaselineTgs
        /\ projections[row_index].hybrid_improvement = detailed_improvement
        /\ projections[row_index].hybrid_improved_tgs =
             RMul(LastBaselineTgs, detailed_improvement)
        /\ hybrid_result[1].resource_breakdown = LastImprovements

\* a hybrid projection from a classification with positive compute and
\* memory/communication buckets whose improvement is neither 1 nor the
\* hardware-calibrated factor
C16_Witness ==
  /\ HybridProjected /\ hw_result # None
  /\ RGt(analysis[1].summary.compute_duration, Zero)
  /\ RGt(analysis[1].summary.memory_comm_duration, Zero)
  /\ RGt(LastImprovements.total_improved_duration, Zero)
  /\ projections[row_index].hybrid_improvement # One
  /\ projections[row_index].hybrid_improvement # hw_result[1].improvement_factor
  /\ projections[row_index].hybrid_improved_tgs # projections[row_index].hybrid_baseline_tgs

\* a hybrid projection from a classification whose improved total is not positive
C16_NonPositiveTotal ==
  HybridProjected /\ ~RGt(LastImprovements.total_improved_duration, Zero)

\* C17: when no classification is available for the row about to be projected,
\* the hybrid strategy does not fail: it returns the average of the
\* hardware-calibrated and pure-simulation improvement factors and
\* hybrid_tgs = hardware-calibrated baseline_tgs * that average, and the loop goes
\* on to the other rows.
C17_FallbackAveragesWithoutFailing ==
  (AtRow /\ InList("hybrid_correlation", approaches) /\ NextFrequency # None
     /\ NextAnalysis = None) =>
    LET hw == calculate_hardware_calibrated_tgs(config[1], NextRow.total_duration,
                                                NextFrequency[1])
        sim == calculate_pure_simulation_tgs(config[1], NextRow.total_duration,
                                             NextFrequency[1])
        hybrid == calculate_hybrid_correlation_tgs(config[1], NextRow.total_duration,
                                                   NextFrequency[1], NextAnalysis)
    IN  /\ hybrid.err = "none"
        /\ hybrid.averaged_improvement =
             PyDiv(RAdd(hw.improvement_factor, sim.improvement_factor), R(2, 1))
        /\ hybrid.hybrid_tgs = RMul(hw.baseline_tgs, hybrid.averaged_improvement)

\* C18: a failure while projecting one record never aborts the batch: once the
\* correlation is established, calculate_projections returns, and with one row
\* for every record of the frequency summary.
C18_BatchNeverAborted ==
  (pc \in {"done", "raised"} /\ correlation # None /\ sim_data # None) =>
    (pc = "done" /\ Len(projections) = Len(sim_data[1]))

\* the projection rows whose simulated duration is positive
ComputedRows == SelectSeq(projections, LAMBDA r : RGt(r.total_simulation_duration, Zero))

\* C19: a frequency with a zero or negative simulated duration is omitted from the
\* pure-simulation comparison statistics: mean, min, max, std and range of
\* pure_sim_improved_tgs are those of the rows with a positive duration.
C19_FailedFrequencyOmitted ==
  (pc = "compared" /\ comparison # None
     /\ "pure_simulation" \in DOMAIN comparison[1].summary_statistics) =>
    comparison[1].summary_statistics["pure_simulation"] =
      Statistics(dropna(Column(ComputedRows, "pure_sim_improved_tgs")))

\* the columns of the correlation-dependent strategies
CorrelationDependentColumns ==
  {"hw_calibrated_baseline_tgs", "hw_calibrated_improved_tgs", "hw_calibrated_improvement",
   "pure_sim_current_tgs", "pure_sim_improved_tgs", "pure_sim_improvement"}

\* C20: when the frequency summary has no row for the baseline frequency
\* (establish_tgs_correlation returned {}), the hardware-calibrated and
\* pure-simulation strategies are aborted for the whole run: no row of the
\* projection table carries one of their values.
C20_NoCorrelationNoDependentValues ==
  (correlation # None /\ correlation[1] = EmptyDict) =>
    \A i \in DOMAIN projections : DOMAIN projections[i] \cap CorrelationDependentColumns = {}

\* the comparison has been generated and holds recommendations
Recommended == comparison # None /\ comparison[1] # EmptyDict /\ comparison[1].recommendations # <<>>

\* C21: the strategy named most conservative has the minimum mean improved_tgs and
\* the one named most optimistic the maximum mean, among the strategies with
\* statistics; the reported gap is that maximum minus that minimum and is >= 0;
\* and for each strategy min <= mean <= max and range = max - min.
C21_ConservativeOptimisticGap ==
  (comparison # None /\ comparison[1] # EmptyDict) =>
    LET stats == comparison[1].summary_statistics
        recommendations == comparison[1].recommendations
    IN  /\ \A k \in DOMAIN stats :
             /\ RLe(stats[k].min_tgs, stats[k].mean_tgs)
             /\ RLe(stats[k].mean_tgs, stats[k].max_tgs)
             /\ stats[k].range_tgs = RSub(stats[k].max_tgs, stats[k].min_tgs)
        /\ recommendations # <<>> =>
             /\ \A k \in DOMAIN stats :
                  /\ RLe(stats[recommendations[1].approach].mean_tgs, stats[k].mean_tgs)
                  /\ RLe(stats[k].mean_tgs, stats[recommendations[2].approach].mean_tgs)
             /\ recommendations[1].value = stats[recommendations[1].approach].mean_tgs
             /\ recommendations[2].value = stats[recommendations[2].approach].mean_tgs
             /\ recommendations[3].value =
                  RSub(recommendations[2].value, recommendations[1].value)
             /\ RLe(Zero, recommendations[3].value)

\* rows i and j of the projection table are of increasing frequency and of
\* non-increasing simulated duration
FrequencyUpDurationDown(i, j) ==
  /\ projections[i].frequency < projections[j].frequency
  /\ RLe(projections[j].total_simulation_duration, projections[i].total_simulation_duration)

\* the baseline columns of the three strategies
BaselineColumns == {"hw_calibrated_baseline_tgs", "pure_sim_current_tgs", "hybrid_baseline_tgs"}

\* baseline_tgs does not decrease from row i to row j, for each strategy computed
BaselineNotDecreasing(i, j) ==
  \A col \in BaselineColumns \cap DOMAIN projections[i] :
    RLe(projections[i][col], projections[j][col])

\* C22 as stated: for records whose simulated duration is non-increasing as the
\* frequency increases, each strategy's baseline_tgs is non-decreasing.
C22_MonotoneBaseline ==
  \A i, j \in DOMAIN projections :
    FrequencyUpDurationDown(i, j) => BaselineNotDecreasing(i, j)

\* C22: for records whose simulated duration is positive and non-increasing as the
\* frequency increases, each strategy's baseline_tgs (hardware-calibrated,
\* pure-simulation, hybrid) is non-decreasing as the frequency increases.
C22_MonotoneBaselinePositiveDurations ==
  \A i, j \in DOMAIN projections :
    (FrequencyUpDurationDown(i, j) /\ RGt(projections[j].total_simulation_duration, Zero)) =>
      BaselineNotDecreasing(i, j)

\* two rows of increasing frequency and decreasing positive duration have been
\* projected by the three strategies, with strictly increasing baselines
C22_Witness ==
  /\ Len(projections) = 2
  /\ FrequencyUpDurationDown(1, 2)
  /\ RGt(projections[2].total_simulation_duration, Zero)
  /\ projections[1].total_simulation_duration # projections[2].total_simulation_duration
  /\ BaselineColumns \subseteq DOMAIN projections[1]
  /\ \A col \in BaselineColumns :
       RLt(projections[1][col], projections[2][col]) /\ RGt(projections[1][col], Zero)

(***************************************************************************)
(* HardwareProjector.project_llm_performance (hardware_projector.py): the  *)
(* PVC throughput of one row of hardware_df                                *)
(***************************************************************************)
\* the columns frequency and pvc_duration that calculate_jgs_projections gives
\* hardware_df, for a frequency summary whose labels are all numbers
HardwareDf(rows) ==
  [i \in 1..Len(rows) |->
     [frequency |-> ParseInt(ReplaceMHz(rows[i].Frequency))[1],
      pvc_duration |-> rows[i].total_duration]]

\* freq_scale_factor of row i: None stands for the IndexError of .iloc[0]
freq_scale_factor(hardware_df, i) ==
  IF hardware_df[i].frequency = 1600 THEN Some(One)
  ELSE LET baseline_rows == SelectSeq(hardware_df, LAMBDA r : r.frequency = 1600)
       IN  IF baseline_rows = <<>> THEN None
           ELSE Some(NpDiv(hardware_df[i].pvc_duration, baseline_rows[1].pvc_duration))

\* pvc_tgs for a given freq_scale_factor
PvcTgsScaled(scale) ==
  LET pvc_total == RAdd(RMul(R(8336, 1), scale), RMul(R(5346, 100), scale))
  IN  IF RGt(pvc_total, Zero) THEN NpDiv(R(114, 1), NpDiv(pvc_total, R(1000, 1))) ELSE Zero

\* pvc_tgs of row i, None when the row raises
pvc_tgs(hardware_df, i) ==
  IF freq_scale_factor(hardware_df, i) = None THEN None
  ELSE Some(PvcTgsScaled(freq_scale_factor(hardware_df, i)[1]))

\* calculate_projections has ended, by a return or by an exception of the loop
ProjectionsEnded == pc \in {"done", "raised"} /\ correlation # None /\ sim_data # None

\* row i of the frequency summary, projected by itself
RowAlone(i) ==
  ProjectionResult(
    sim_data[1][i], approaches, ParseInt(ReplaceMHz(sim_data[1][i].Frequency))[1],
    analyze_resource_types(RawGet(raw_data, ReplaceMHz(sim_data[1][i].Frequency))),
    StrategyCalls(config[1], approaches, sim_data[1][i].total_duration,
                  ParseInt(ReplaceMHz(sim_data[1][i].Frequency))[1],
                  analyze_resource_types(RawGet(raw_data, ReplaceMHz(sim_data[1][i].Frequency)))))

\* row i can be projected by itself: its label is a number and no strategy raises
RowAloneSucceeds(i) ==
  /\ ParseInt(ReplaceMHz(sim_data[1][i].Frequency)) # None
  /\ FirstError(StrategyCalls(
        config[1], approaches, sim_data[1][i].total_duration,
        ParseInt(ReplaceMHz(sim_data[1][i].Frequency))[1],
        analyze_resource_types(RawGet(raw_data, ReplaceMHz(sim_data[1][i].Frequency)))))
       = "none"

\* the values calculate_projections produces for a record are those the record
\* gives by itself, whatever the other records
EngineRowsIndependent ==
  ProjectionsEnded =>
    \A i \in DOMAIN sim_data[1] :
      RowAloneSucceeds(i) => \E k \in DOMAIN projections : projections[k] = RowAlone(i)

\* the PVC throughput project_llm_performance gives a record is the one the record
\* gives by itself, whatever the other records
LlmRowsIndependent ==
  (sim_data # None /\ \A i \in DOMAIN sim_data[1] :
                        ParseInt(ReplaceMHz(sim_data[1][i].Frequency)) # None) =>
    \A i \in DOMAIN sim_data[1] :
      pvc_tgs(HardwareDf(sim_data[1]), i) = pvc_tgs(HardwareDf(<<sim_data[1][i]>>), 1)

\* C23: per-frequency projections are independent: the values produced for a
\* record depend only on that record, its classification and the shared
\* configuration, so that adding, removing or changing another record does not
\* change them.
C23_RecordsIndependent == EngineRowsIndependent /\ LlmRowsIndependent

\* the rows produced so far are those of the first records, in table order
RowsInTableOrder ==
  (sim_data # None /\ pc \in {"projecting", "done", "compared"}) =>
    /\ Len(projections) = row_index
    /\ row_index <= Len(sim_data[1])
    /\ \A k \in DOMAIN projections :
         /\ projections[k].frequency_str = sim_data[1][k].Frequency
         /\ projections[k].total_simulation_duration = sim_data[1][k].total_duration

\* once calculate_projections has ended every record has its row
EveryRecordHasItsRow ==
  ProjectionsEnded => Len(projections) = Len(sim_data[1])

\* the hybrid projection of a row uses the classification computed for that row
ClassificationBeforeHybrid ==
  (pc \in {"projecting", "done", "compared"} /\ row_index > 0 /\ hybrid_result # None) =>
    /\ projections[row_index].resource_analysis_available = (analysis # None)
    /\ HybridFromClassification <=> analysis # None

\* the comparison is the statistics of the rows produced, which it leaves as they are
ComparisonOfProducedRows ==
  comparison # None =>
    /\ pc = "compared" /\ Len(projections) = Len(sim_data[1])
    /\ comparison[1] = generate_comparison_analysis(config[1], projections)

\* C24: the engine is a single pass: each record of the frequency summary is
\* projected exactly once, in table order, and yields exactly one result row; its
\* classification is computed before its hybrid projection; and the comparison
\* reads only rows already produced, without changing them.
C24_SinglePass ==
  /\ RowsInTableOrder
  /\ EveryRecordHasItsRow
  /\ ClassificationBeforeHybrid
  /\ ComparisonOfProducedRows

\* the four bucket durations handed to apply_hardware_improvements for the row
\* projected last
LastBuckets ==
  [compute |-> analysis[1].summary.compute_duration,
   memory |-> hybrid_result[1].memory_dur,
   comm |-> hybrid_result[1].comm_dur,
   other |-> analysis[1].summary.other_duration]

\* original / improved when improved > 0, and 1 otherwise
RatioAsStated(original, improved) ==
  IF RGt(improved, Zero) THEN NpDiv(original, improved) ELSE One

\* C25: what apply_hardware_improvements returns for non-negative bucket
\* durations: improved_compute = compute * compute_ratio * fabrication_ratio,
\* improved_memory = memory / memory_multiplier * fabrication_ratio,
\* improved_comm = comm / sqrt(bandwidth * latency multiplier) * fabrication_ratio,
\* improved_other = other * fabrication_ratio, total_improved_duration their sum,
\* and each ratio original / improved when improved > 0 and 1 otherwise.
C25_ImprovedDurations ==
  HybridProjected =>
    LET cfg == config[1]
        was == LastBuckets
        now == hybrid_result[1].resource_breakdown
    IN  /\ \A b \in {"compute", "memory", "comm", "other"} : RLe(Zero, was[b])
        /\ now.improved_compute_duration =
             RMul(RMul(was.compute, cfg.xecore_compute), cfg.fabrication_process)
        /\ now.improved_memory_duration =
             RMul(NpDiv(was.memory, cfg.hbm_bandwidth), cfg.fabrication_process)
        /\ now.improved_comm_duration =
             RMul(NpDiv(was.comm, Sqrt(RMul(cfg.bandwidth_improvement,
                                            cfg.latency_improvement))),
                  cfg.fabrication_process)
        /\ now.improved_other_duration = RMul(was.other, cfg.fabrication_process)
        /\ now.total_improved_duration =
             RAdd(RAdd(RAdd(now.improved_compute_duration, now.improved_memory_duration),
                       now.improved_comm_duration),
                  now.improved_other_duration)
        /\ now.compute_improvement_ratio =
             RatioAsStated(was.compute, now.improved_compute_duration)
        /\ now.memory_improvement_ratio =
             RatioAsStated(was.memory, now.improved_memory_duration)
        /\ now.comm_improvement_ratio = RatioAsStated(was.comm, now.improved_comm_duration)
        /\ now.other_improvement_ratio =
             RatioAsStated(was.other, now.improved_other_duration)

\* compute, memory and communication durations are positive and improved by
\* different ratios, and the empty other bucket has the ratio 1
C25_Witness ==
  /\ HybridProjected
  /\ RGt(LastBuckets.compute, Zero) /\ RGt(LastBuckets.memory, Zero)
  /\ RGt(LastBuckets.comm, Zero) /\ LastBuckets.other = Zero
  /\ RGt(hybrid_result[1].resource_breakdown.improved_compute_duration, Zero)
  /\ hybrid_result[1].resource_breakdown.compute_improvement_ratio
       # hybrid_result[1].resource_breakdown.memory_improvement_ratio
  /\ hybrid_result[1].resource_breakdown.memory_improvement_ratio
       # hybrid_result[1].resource_breakdown.comm_improvement_ratio
  /\ hybrid_result[1].resource_breakdown.other_improvement_ratio = One

\* the configuration with other compute, memory and communication factors
OtherFactors(cfg, x, h, c) ==
  [cfg EXCEPT !.xecore_compute = x, !.hbm_bandwidth = h,
              !.bandwidth_improvement = c[1], !.latency_improvement = c[2]]

\* apply_hardware_improvements on the buckets of the row projected last, under
\* other compute, memory and communication factors
LastImprovementsWith(x, h, c) ==
  apply_hardware_improvements(OtherFactors(config[1], x, h, c), LastBuckets.compute,
                              LastBuckets.memory, LastBuckets.comm, LastBuckets.other)

\* C26: the fabrication ratio is the only factor that affects the other bucket:
\* improved_other = other_duration * fabrication_ratio, and under any other
\* (positive) compute ratio, memory multiplier and communication multipliers
\* improved_other and the other-bucket ratio are the same.
C26_OnlyFabricationTouchesOther ==
  HybridProjected =>
    /\ hybrid_result[1].resource_breakdown.improved_other_duration =
         RMul(LastBuckets.other, config[1].fabrication_process)
    /\ \A x \in TimeRatios, h \in Multipliers, c \in CommunicationPairs :
         /\ LastImprovementsWith(x, h, c).err = "none"
         /\ LastImprovementsWith(x, h, c).improved_other_duration =
              hybrid_result[1].resource_breakdown.improved_other_duration
         /\ LastImprovementsWith(x, h, c).other_improvement_ratio =
              hybrid_result[1].resource_breakdown.other_improvement_ratio

\* a positive other bucket has been improved by a fabrication ratio other than 1,
\* next to a positive compute or memory/communication bucket
C26_Witness ==
  /\ HybridProjected
  /\ RGt(LastBuckets.other, Zero)
  /\ RGt(LastBuckets.compute, Zero) \/ RGt(LastBuckets.memory, Zero)
  /\ config[1].fabrication_process \notin {Zero, One}
  /\ hybrid_result[1].resource_breakdown.other_improvement_ratio # One
  /\ hybrid_result[1].resource_breakdown.improved_other_duration # LastBuckets.other


\* the strategies that wrote their columns into row i
StrategiesOfRow(i) ==
  {a \in {"hardware_calibrated"} : "hw_calibrated_improved_tgs" \in DOMAIN projections[i]} \cup
  {a \in {"pure_simulation"} : "pure_sim_improved_tgs" \in DOMAIN projections[i]} \cup
  {a \in {"hybrid_correlation"} : "hybrid_improved_tgs" \in DOMAIN projections[i]}

(***************************************************************************)
(* C27.  The three columns a strategy writes into a row.                   *)
(***************************************************************************)
\* the columns <<baseline, improved, improvement>> of the strategies of row i
StrategyColumns(i) ==
  {<<projections[i].hw_calibrated_baseline_tgs, projections[i].hw_calibrated_improved_tgs,
     projections[i].hw_calibrated_improvement>> :
       a \in {"hardware_calibrated"} \cap StrategiesOfRow(i)} \cup
  {<<projections[i].pure_sim_current_tgs, projections[i].pure_sim_improved_tgs,
     projections[i].pure_sim_improvement>> :
       a \in {"pure_simulation"} \cap StrategiesOfRow(i)} \cup
  {<<projections[i].hybrid_baseline_tgs, projections[i].hybrid_improved_tgs,
     projections[i].hybrid_improvement>> :
       a \in {"hybrid_correlation"} \cap StrategiesOfRow(i)}

LegacyClassifyRow_contains(acc, row) ==
  IF Contains(row.RESOURCE, EX_U0) /\ Contains(row.RESOURCE, GT_TILE)
  THEN [acc EXCEPT !.compute_tasks = Append(@, Task(row)),
                        !.total_compute_duration = RAdd(@, row.DURATION)]
  ELSE IF Contains(row.RESOURCE, EX_U1) /\ Contains(row.RESOURCE, GT_TILE)
  THEN [acc EXCEPT !.memory_comm_tasks = Append(@, Task(row)),
                        !.total_memory_comm_duration = RAdd(@, row.DURATION)]
  ELSE IF Contains(row.RESOURCE, GT_PREFIX)
  THEN [acc EXCEPT !.other_tasks = Append(@, Task(row)),
                        !.total_other_duration = RAdd(@, row.DURATION)]
  ELSE acc

\* one iteration of `for idx, row in freq_data.iterrows()`
LegacyClassifyRow(acc, row) ==
  IF Contains(row.RESOURCE, EX_U0) /\ Contains(row.RESOURCE, GT_TILE)
  THEN [acc EXCEPT !.compute_tasks = Append(@, Task(row)),
                        !.total_compute_duration = RAdd(@, row.DURATION)]
  ELSE IF Contains(row.RESOURCE, EX_U1) /\ Contains(row.RESOURCE, GT_TILE)
  THEN [acc EXCEPT !.memory_comm_tasks = Append(@, Task(row)),
                        !.total_memory_comm_duration = RAdd(@, row.DURATION)]
  ELSE IF StartsWith(row.RESOURCE, GT_PREFIX)
  THEN [acc EXCEPT !.other_tasks = Append(@, Task(row)),
                        !.total_other_duration = RAdd(@, row.DURATION)]
  ELSE acc

RECURSIVE LegacyClassifyLoop(_, _, _)
LegacyClassifyLoop(rows, i, acc) ==
  IF i > Len(rows) THEN acc
  ELSE LegacyClassifyLoop(rows, i + 1, LegacyClassifyRow(acc, rows[i]))

\* analysis['summary']: the total is written out in every entry that uses it
LegacySummary(acc) ==
  [compute_duration |-> acc.total_compute_duration,
   memory_comm_duration |-> acc.total_memory_comm_duration,
   other_duration |-> acc.total_other_duration,
   total_duration |->
     RAdd(RAdd(acc.total_compute_duration, acc.total_memory_comm_duration),
          acc.total_other_duration),
   compute_percentage |->
     IF RGt(RAdd(RAdd(acc.total_compute_duration, acc.total_memory_comm_duration),
                 acc.total_other_duration), Zero)
     THEN RMul(PyDiv(acc.total_compute_duration,
                     RAdd(RAdd(acc.total_compute_duration, acc.total_memory_comm_duration),
                          acc.total_other_duration)), R(100, 1))
     ELSE Zero,
   memory_comm_percentage |->
     IF RGt(RAdd(RAdd(acc.total_compute_duration, acc.total_memory_comm_duration),
                 acc.total_other_duration), Zero)
     THEN RMul(PyDiv(acc.total_memory_comm_duration,
                     RAdd(RAdd(acc.total_compute_duration, acc.total_memory_comm_duration),
                          acc.total_other_duration)), R(100, 1))
     ELSE Zero,
   compute_tasks_count |-> Len(acc.compute_tasks),
   memory_comm_tasks_count |-> Len(acc.memory_comm_tasks),
   other_tasks_count |-> Len(acc.other_tasks)]

\* HardwareProjector.analyze_resource_types: None or <<analysis>>
LegacyAnalyzeResourceTypes(freq_data) ==
  IF freq_data = None \/ Len(freq_data[1]) = 0 THEN None
  ELSE LET acc == LegacyClassifyLoop(CoerceAndDrop(freq_data[1]), 1, EmptyAccumulator)
       IN  Some([compute_tasks |-> acc.compute_tasks,
                 memory_comm_tasks |-> acc.memory_comm_tasks,
                 other_tasks |-> acc.other_tasks,
                 summary |-> LegacySummary(acc)])

(***************************************************************************)
(* C28.  The three classifiers on one table.                               *)
(***************************************************************************)
\* the values the three implementations have in common, read from a summary
SharedOfSummary(summary) ==
  <<summary.compute_duration, summary.memory_comm_duration, summary.other_duration,
    summary.total_duration, summary.compute_percentage, summary.memory_comm_percentage,
    summary.compute_tasks_count, summary.memory_comm_tasks_count,
    summary.other_tasks_count>>

\* the same values read from a workload breakdown
SharedOfBreakdown(b) ==
  <<b.compute_duration, b.memory_comm_duration, b.other_duration, b.total_gt_duration,
    b.compute_percentage, b.memory_comm_percentage, b.task_counts.compute_tasks,
    b.task_counts.memory_comm_tasks, b.task_counts.other_tasks>>

\* the three results for the table `table` (None or <<rows>>) agree
ClassifiersAgree(table) ==
  LET legacy == LegacyAnalyzeResourceTypes(table)
      enhanced == analyze_resource_types(table)
      workload == WorkloadBreakdown(table)
  IN  /\ (legacy = None <=> enhanced = None)
      /\ (enhanced = None <=> workload = None)
      /\ enhanced # None =>
           /\ SharedOfSummary(legacy[1].summary) = SharedOfSummary(enhanced[1].summary)
           /\ SharedOfSummary(enhanced[1].summary) = SharedOfBreakdown(workload[1])

\* C28: HardwareProjector.analyze_resource_types,
\* EnhancedHardwareProjector.analyze_resource_types and
\* PVCCorrelationStudy.analyze_simulation_workload give, for the table as written
\* and for the loaded (GT-filtered) table, the same three durations, total, compute
\* and memory_comm percentages and task counts; the engine's stored analysis is
\* that common result
C28_ClassifiersAgree ==
  /\ ClassifiersAgree(csv)
  /\ pc \in {"loaded", "classified"} => ClassifiersAgree(RawGet(raw_data, FREQ_KEY))
  /\ pc = "classified" => analysis = analyze_resource_types(RawGet(raw_data, FREQ_KEY))

\* a classified table with a row that passes both tile tests, a tile row outside
\* gt/, and a positive total
C28_Witness ==
  /\ pc = "classified"
  /\ analysis # None
  /\ RGt(analysis[1].summary.total_duration, Zero)
  /\ \E i, j \in 1..Len(csv[1]) :
       /\ Contains(csv[1][i].RESOURCE, EX_U0) /\ Contains(csv[1][i].RESOURCE, EX_U1)
       /\ ~StartsWith(csv[1][j].RESOURCE, GT_PREFIX)
       /\ Contains(csv[1][j].RESOURCE, GT_TILE)

(***************************************************************************)
(* C29.  The comparison and the strategies that were computed.             *)
(***************************************************************************)
\* the strategies calculate_projections was asked to compute
AskedStrategies == {approaches[i] : i \in DOMAIN approaches}

\* C29: the comparison of a projection table has summary statistics for exactly
\* the strategies calculate_projections was asked to compute, and the
\* conservative / optimistic recommendations if and only if these are at least two
C29_StatisticsForComputedStrategies ==
  (pc = "compared" /\ projections # <<>>) =>
    /\ DOMAIN comparison[1].summary_statistics = AskedStrategies
    /\ comparison[1].recommendations # <<>> <=> Cardinality(AskedStrategies) >= 2

(***************************************************************************)
(* C30.  The approaches of a configuration.                                *)
(***************************************************************************)
ConcreteStrategies == {"hardware_calibrated", "pure_simulation", "hybrid_correlation"}

\* the names of `names` that are concrete strategies, in the order of `names`
RECURSIVE ValidNames(_)
ValidNames(names) ==
  IF names = <<>> THEN <<>>
  ELSE IF Head(names) \in ConcreteStrategies
  THEN <<Head(names)>> \o ValidNames(Tail(names))
  ELSE ValidNames(Tail(names))

\* C30: get_enabled_approaches returns a non-empty list of concrete strategies
\* only: the three of them in the order hardware-calibrated, pure-simulation,
\* hybrid when 'all' is configured; otherwise the configured names that are valid,
\* in configured order; and the single hardware-calibrated one when none is valid
C30_EnabledApproaches ==
  config # None =>
    LET enabled == config[1].enabled_approaches
        result == get_enabled_approaches(config[1])
    IN  /\ result # <<>>
        /\ \A i \in DOMAIN result : result[i] \in ConcreteStrategies
        /\ InList("all", enabled) =>
             result = <<"hardware_calibrated", "pure_simulation", "hybrid_correlation">>
        /\ (~InList("all", enabled) /\ ValidNames(enabled) # <<>>) =>
             result = ValidNames(enabled)
        /\ (~InList("all", enabled) /\ ValidNames(enabled) = <<>>) =>
             result = <<"hardware_calibrated">>

\* a run whose configuration names an unknown approach before a valid one, or no
\* valid approach at all, projecting what the function returned
C30_Witness ==
  /\ pc = "projecting"
  /\ config # None
  /\ approaches = get_enabled_approaches(config[1])
  /\ \/ /\ config[1].enabled_approaches = <<"ALL", "hybrid_correlation">>
        /\ approaches = <<"hybrid_correlation">>
     \/ /\ config[1].enabled_approaches = <<"roofline">>
        /\ approaches = <<"hardware_calibrated">>
====
